---- MODULE Spec2Model ----
(***************************************************************************)
(* Verification model of the legal-document RAG pipeline:                  *)
(*   - src/enhanced_ingest.py, src/src/ingest.py    (ingestion, dedup)     *)
(*   - src/src/hybrid_retriever.py, hybrid_retriever_simple.py (routing)   *)
(*   - src/src/comprehensive_processor.py           (metadata extraction)  *)
(*   - src/src/citation_resolver.py                 (citation normalizing) *)
(* A Python str is modelled as a sequence of one-character strings, so     *)
(* that substring tests, regular expressions and re.sub are computed and   *)
(* not assumed.                                                            *)
(***************************************************************************)
EXTENDS Integers, Sequences, FiniteSets, TLC

VARIABLES
  coll,      \* [project -> sequence of stored chunks]: the Chroma collections
  index,     \* [project -> set of records]: MetadataIndex.index, one record
             \* per sha256
  lastOp,    \* the call in progress (an ingest or a retrieval) with its
             \* arguments and outcome, [op |-> "none"] between calls
  result,    \* list of chunks returned by the retrieval call in progress
  xin,       \* input of the function under check (text and filename, a name,
             \* a citation, a pair of documents)
  xout,      \* its result, Pending until the function has been applied
  citation_cache  \* CitationResolver.citation_cache of the one resolver
             \* instance: [normalized citation -> what was returned]

vars == <<coll, index, lastOp, result, xin, xout, citation_cache>>

Pending == [pending |-> TRUE]

\* the element of a one-element set: The({e(x) : x \in {v}}) is e with x
\* standing for the value v, computed once
The(S) == CHOOSE r \in S : TRUE

(***************************************************************************)
(* Characters and Python str helpers                                       *)
(***************************************************************************)
UpperSeq == <<"A","B","C","D","E","F","G","H","I","J","K","L","M",
              "N","O","P","Q","R","S","T","U","V","W","X","Y","Z">>
LowerSeq == <<"a","b","c","d","e","f","g","h","i","j","k","l","m",
              "n","o","p","q","r","s","t","u","v","w","x","y","z">>
DigitSet == {"0","1","2","3","4","5","6","7","8","9"}
UpperSet == {UpperSeq[i] : i \in 1..26}
LowerSet == {LowerSeq[i] : i \in 1..26}
SpaceSet == {" ", "\n", "\t"}

IsDigit(c) == c \in DigitSet
IsUpperC(c) == c \in UpperSet
IsLowerC(c) == c \in LowerSet
IsAlpha(c) == c \in UpperSet \cup LowerSet
IsSpace(c) == c \in SpaceSet
\* \w of the re module
IsWord(c) == IsAlpha(c) \/ IsDigit(c) \/ c = "_"

LowerOf == [c \in UpperSet |-> LowerSeq[CHOOSE i \in 1..26 : UpperSeq[i] = c]]
UpperOf == [c \in LowerSet |-> UpperSeq[CHOOSE i \in 1..26 : LowerSeq[i] = c]]
ToLowerC(c) == IF c \in UpperSet THEN LowerOf[c] ELSE c
ToUpperC(c) == IF c \in LowerSet THEN UpperOf[c] ELSE c
\* str.lower(), str.upper()
StrLower(s) == [i \in 1..Len(s) |-> ToLowerC(s[i])]
StrUpper(s) == [i \in 1..Len(s) |-> ToUpperC(s[i])]

\* s[i:j] with 1-based inclusive bounds; empty when j < i
Slice(s, i, j) == IF j < i THEN <<>> ELSE SubSeq(s, i, j)

\* sub occurs in s starting at position i
OccursAt(s, sub, i) ==
  /\ i >= 1
  /\ i + Len(sub) - 1 <= Len(s)
  /\ \A k \in 1..Len(sub) : s[i + k - 1] = sub[k]

\* Python "sub in s"
Contains(s, sub) == \E i \in 1..(Len(s) + 1) : OccursAt(s, sub, i)

\* first position >= i whose character does not satisfy the class (greedy X*)
SkipDigits(s, i) ==
  CHOOSE j \in i..(Len(s) + 1) :
    /\ \A k \in i..(j - 1) : IsDigit(s[k])
    /\ (j = Len(s) + 1 \/ ~IsDigit(s[j]))
SkipSpaces(s, i) ==
  CHOOSE j \in i..(Len(s) + 1) :
    /\ \A k \in i..(j - 1) : IsSpace(s[k])
    /\ (j = Len(s) + 1 \/ ~IsSpace(s[j]))

\* \b between positions i-1 and i
WordBoundary(s, i) ==
  (i >= 2 /\ i - 1 <= Len(s) /\ IsWord(s[i - 1]))
    # (i >= 1 /\ i <= Len(s) /\ IsWord(s[i]))

\* str.replace(old, "") for the non-overlapping leftmost occurrences
RECURSIVE StrRemove(_, _)
StrRemove(s, old) ==
  IF Len(s) = 0 \/ Len(old) = 0 THEN s
  ELSE IF OccursAt(s, old, 1)
       THEN StrRemove(Slice(s, Len(old) + 1, Len(s)), old)
       ELSE <<s[1]>> \o StrRemove(Slice(s, 2, Len(s)), old)

\* the least element of a set of positions
Leftmost(S) == CHOOSE h \in S : \A g \in S : h <= g

(***************************************************************************)
(* The case-number grammar  \d{2}[A-Z]-[A-Z]\d+(?:-REL)?(?:-RHG)?          *)
(***************************************************************************)
sREL == <<"-","R","E","L">>
sRHG == <<"-","R","H","G">>

\* [A-Z], under re.IGNORECASE when ic
IsLetterRe(c, ic) == IF ic THEN IsAlpha(c) ELSE IsUpperC(c)
\* a literal at position i, under re.IGNORECASE when ic
LitAt(s, lit, i, ic) ==
  /\ i >= 1
  /\ i + Len(lit) - 1 <= Len(s)
  /\ \A k \in 1..Len(lit) :
       IF ic THEN ToLowerC(s[i + k - 1]) = ToLowerC(lit[k])
       ELSE s[i + k - 1] = lit[k]

\* The ends (exclusive) the suffix part (?:-REL)?(?:-RHG)? can reach from e,
\* in the order the backtracking matcher tries them (greedy first).
SuffixEnds(s, e, ic) ==
  (IF LitAt(s, sREL, e, ic) /\ LitAt(s, sRHG, e + 4, ic) THEN <<e + 8>> ELSE <<>>)
    \o (IF LitAt(s, sREL, e, ic) THEN <<e + 4>> ELSE <<>>)
    \o (IF LitAt(s, sRHG, e, ic) THEN <<e + 4>> ELSE <<>>)
    \o <<e>>

\* first element of a sequence of ends that is followed by \b (any, if ~bound)
FirstEnd(s, ends, bound) ==
  IF \A n \in 1..Len(ends) : bound /\ ~WordBoundary(s, ends[n]) THEN 0
  ELSE ends[CHOOSE n \in 1..Len(ends) :
              /\ (~bound) \/ WordBoundary(s, ends[n])
              /\ \A m \in 1..(n - 1) : bound /\ ~WordBoundary(s, ends[m])]

\* End (exclusive) of the match of the grammar at position i, 0 when it does
\* not match there. d is the greedy end of \d+; shorter digit runs are tried
\* after it, as the matcher backtracks.
RECURSIVE TokEndFrom(_, _, _, _, _)
TokEndFrom(s, lo, d, ic, bound) ==
  IF d < lo THEN 0
  ELSE The({IF FirstEnd(s, ends, bound) # 0 THEN FirstEnd(s, ends, bound)
            ELSE TokEndFrom(s, lo, d - 1, ic, bound) :
              ends \in {SuffixEnds(s, d, ic)}})

CaseTokEnd(s, i, ic, bound) ==
  IF /\ i >= 1
     /\ i + 5 <= Len(s)
     /\ IsDigit(s[i]) /\ IsDigit(s[i + 1])
     /\ IsLetterRe(s[i + 2], ic)
     /\ s[i + 3] = "-"
     /\ IsLetterRe(s[i + 4], ic)
     /\ IsDigit(s[i + 5])
  THEN TokEndFrom(s, i + 6, SkipDigits(s, i + 5), ic, bound)
  ELSE 0

\* re.search of  (\bTOKEN\b | TOKEN): [start, end) of the leftmost match,
\* <<0, 0>> when there is none
CaseTokSearch(s, ic, bound) ==
  The({IF hits = {} THEN <<0, 0>>
       ELSE <<Leftmost(hits), CaseTokEnd(s, Leftmost(hits), ic, bound)>> :
         hits \in {{i \in 1..Len(s) :
                      /\ (~bound) \/ WordBoundary(s, i)
                      /\ CaseTokEnd(s, i, ic, bound) # 0}}})

(***************************************************************************)
(* comprehensive_processor.py: case identification                         *)
(***************************************************************************)
\* Python None
None == <<"<None>">>

sDocx == <<".","d","o","c","x">>
sDoc  == <<".","d","o","c">>
sCase == <<"C","a","s","e">>
sADRE == <<"A","D","R","E">>
sNo   == <<"N","o">>

\* re.sub(r'\s+', ' ', text)
RECURSIVE CollapseWs(_)
CollapseWs(s) ==
  IF \A k \in 1..Len(s) : ~IsSpace(s[k]) THEN s
  ELSE The({Slice(s, 1, p - 1) \o <<" ">>
              \o CollapseWs(Slice(s, SkipSpaces(s, p), Len(s))) :
              p \in {Leftmost({k \in 1..Len(s) : IsSpace(s[k])})}})

\* _extract_case_number_from_filename
ExtractCaseNumberFromFilename(filename) ==
  The({IF m[1] # 0 THEN Slice(filename, m[1], m[2] - 1)
       ELSE StrRemove(StrRemove(filename, sDocx), sDoc) :
         m \in {CaseTokSearch(filename, FALSE, FALSE)}})

\* [A-Z0-9\-] under re.IGNORECASE
IsIdChar(c) == IsAlpha(c) \/ IsDigit(c) \/ c = "-"
SkipId(s, i) ==
  CHOOSE j \in i..(Len(s) + 1) :
    /\ \A k \in i..(j - 1) : IsIdChar(s[k])
    /\ (j = Len(s) + 1 \/ ~IsIdChar(s[j]))

\* position after  No\.?\s*  matched at k, 0 when "No" is not at k
AfterNo(s, k) ==
  IF LitAt(s, sNo, k, TRUE)
  THEN SkipSpaces(s, IF k + 2 <= Len(s) /\ s[k + 2] = "." THEN k + 3 ELSE k + 2)
  ELSE 0

\* (?:No\.?\s*)?([A-Z0-9\-]+) at k: start of the group, 0 when no match
NoThenId(s, k) ==
  The({IF a # 0 /\ a <= Len(s) /\ IsIdChar(s[a]) THEN a
       ELSE IF k >= 1 /\ k <= Len(s) /\ IsIdChar(s[k]) THEN k ELSE 0 :
         a \in {AfterNo(s, k)}})

\* adre_case[0]:  ADRE\s+(?:Case\s+)?(?:No\.?\s*)?([A-Z0-9\-]+)  at i
AdreP1At(s, i) ==
  IF ~LitAt(s, sADRE, i, TRUE) THEN 0
  ELSE The({IF j = i + 4 THEN 0
            ELSE IF withCase # 0 THEN withCase ELSE NoThenId(s, j) :
              j \in {SkipSpaces(s, i + 4)},
              withCase \in {The({IF j > i + 4 /\ LitAt(s, sCase, j, TRUE)
                                    /\ SkipSpaces(s, j + 4) > j + 4
                                 THEN NoThenId(s, SkipSpaces(s, j + 4)) ELSE 0 :
                                   j \in {SkipSpaces(s, i + 4)}})}})

\* adre_case[1]:  Case\s+(?:No\.?\s*)?(TOKEN)  at i: start of the group
AdreP2At(s, i) ==
  IF ~LitAt(s, sCase, i, TRUE) THEN 0
  ELSE The({IF j = i + 4 THEN 0
            ELSE IF a # 0 /\ CaseTokEnd(s, a, TRUE, FALSE) # 0 THEN a
            ELSE IF CaseTokEnd(s, j, TRUE, FALSE) # 0 THEN j ELSE 0 :
              j \in {SkipSpaces(s, i + 4)},
              a \in {AfterNo(s, SkipSpaces(s, i + 4))}})

\* re.search over case_patterns['adre_case'], first pattern that matches:
\* group(1), or None
AdreCaseMatch(s) ==
  The({IF h1 # {}
       THEN The({Slice(s, g, SkipId(s, g) - 1) :
                   g \in {AdreP1At(s, Leftmost(h1))}})
       ELSE IF h2 # {}
       THEN The({Slice(s, g, CaseTokEnd(s, g, TRUE, FALSE) - 1) :
                   g \in {AdreP2At(s, Leftmost(h2))}})
       ELSE IF m3[1] # 0 THEN Slice(s, m3[1], m3[2] - 1)
       ELSE None :
         h1 \in {{i \in 1..Len(s) : AdreP1At(s, i) # 0}},
         h2 \in {{i \in 1..Len(s) : AdreP2At(s, i) # 0}},
         m3 \in {CaseTokSearch(s, TRUE, FALSE)}})

\* _extract_case_info: the case_number after it, given the value the record
\* was constructed with
CaseNumberAfterInfo(initial, textClean) ==
  The({IF m # None /\ (initial = <<>> \/ initial = m) THEN m ELSE initial :
         m \in {AdreCaseMatch(textClean)}})

\* case_number of extract_comprehensive_metadata(text, filename)
ExtractCaseNumber(text, filename) ==
  CHOOSE r \in {CaseNumberAfterInfo(initial, textClean) :
                  initial \in {ExtractCaseNumberFromFilename(filename)},
                  textClean \in {CollapseWs(text)}} : TRUE

(***************************************************************************)
(* comprehensive_processor.py: statutory and regulatory violations         *)
(* Characters outside ASCII are written as named atoms: "SECT" is the      *)
(* section sign U+00A7, "NDASH" U+2013, "MDASH" U+2014.                     *)
(***************************************************************************)
cSect == "SECT"
sARS == <<"A",".","R",".","S">>
sAAC == <<"A",".","A",".","C">>
sArizona == <<"A","r","i","z","o","n","a">>
sRevised == <<"R","e","v","i","s","e","d">>
sStatute == <<"S","t","a","t","u","t","e">>
sAdministrative ==
  <<"A","d","m","i","n","i","s","t","r","a","t","i","v","e">>
sCode == <<"C","o","d","e">>
\* the f-string prefixes of lines 417 and 426
sArsPrefix == <<"A",".","R",".","S","."," ","SECT"," ">>
sAacPrefix == <<"A",".","A",".","C","."," ","R">>

IsNumChar(c) == IsDigit(c) \/ c = "-"
SkipNum(s, i) ==
  CHOOSE j \in i..(Len(s) + 1) :
    /\ \A k \in i..(j - 1) : IsNumChar(s[k])
    /\ (j = Len(s) + 1 \/ ~IsNumChar(s[j]))

\* (?:\.[0-9A-Z\-]+)*  from e, greedy, under re.IGNORECASE
RECURSIVE SkipSubsections(_, _)
SkipSubsections(s, e) ==
  IF e + 1 <= Len(s) /\ s[e] = "." /\ IsIdChar(s[e + 1])
  THEN SkipSubsections(s, SkipId(s, e + 1))
  ELSE e

\* ([0-9\-]+(?:\.[0-9A-Z\-]+)*) at g: <<g, end>>, <<0, 0>> when no match
CiteGroupAt(s, g) ==
  IF g >= 1 /\ g <= Len(s) /\ IsNumChar(s[g])
  THEN <<g, SkipSubsections(s, SkipNum(s, g))>>
  ELSE <<0, 0>>

\* position after an optional literal character
OptChar(s, i, c) == IF i >= 1 /\ i <= Len(s) /\ s[i] = c THEN i + 1 ELSE i
\* position after an optional letter, under re.IGNORECASE
OptLetter(s, i, c) ==
  IF i >= 1 /\ i <= Len(s) /\ ToLowerC(s[i]) = ToLowerC(c) THEN i + 1 ELSE i
\* position after \s+ from i, 0 when there is no whitespace at i
Spaces1(s, i) == IF SkipSpaces(s, i) > i THEN SkipSpaces(s, i) ELSE 0

\* \s*SECT?\s*(group) from j
SectThenGroup(s, j) ==
  The({CiteGroupAt(s, g) :
         g \in {SkipSpaces(s, OptChar(s, SkipSpaces(s, j), cSect))}})

\* Arizona\s+w2\s+w3 at i: the position after w3, 0 when it does not match
ArizonaWordsEnd(s, i, w2, w3) ==
  IF ~LitAt(s, sArizona, i, TRUE) THEN 0
  ELSE The({IF a # 0 /\ LitAt(s, w2, a, TRUE)
                 /\ Spaces1(s, a + Len(w2)) # 0
                 /\ LitAt(s, w3, Spaces1(s, a + Len(w2)), TRUE)
            THEN Spaces1(s, a + Len(w2)) + Len(w3) ELSE 0 :
              a \in {Spaces1(s, i + 7)}})

\* One match attempt of a violation pattern at position i: the span of
\* group(1), <<0, 0>> when the pattern does not match at i.
\*  ars1  A\.R\.S\.?\s*SECT?\s*(G)       ars2  Arizona\s+Revised\s+Statutes?\s*SECT?\s*(G)
\*  aac1  A\.A\.C\.?\s*R?(G)            aac2  Arizona\s+Administrative\s+Code\s*R?(G)
ViolationMatchAt(pat, s, i) ==
  CASE pat = "ars1" ->
         IF LitAt(s, sARS, i, TRUE)
         THEN SectThenGroup(s, OptChar(s, i + 5, "."))
         ELSE <<0, 0>>
    [] pat = "ars2" ->
         The({IF e # 0 THEN SectThenGroup(s, OptLetter(s, e, "s"))
              ELSE <<0, 0>> :
                e \in {ArizonaWordsEnd(s, i, sRevised, sStatute)}})
    [] pat = "aac1" ->
         IF LitAt(s, sAAC, i, TRUE)
         THEN The({CiteGroupAt(s, g) :
                     g \in {OptLetter(s, SkipSpaces(s, OptChar(s, i + 5, ".")), "R")}})
         ELSE <<0, 0>>
    [] pat = "aac2" ->
         The({IF e # 0 THEN CiteGroupAt(s, OptLetter(s, SkipSpaces(s, e), "R"))
              ELSE <<0, 0>> :
                e \in {ArizonaWordsEnd(s, i, sAdministrative, sCode)}})

\* re.finditer: group(1) of the non-overlapping matches from pos, left to right
RECURSIVE FindIter(_, _, _)
FindIter(pat, s, pos) ==
  The({IF hits = {} THEN <<>>
       ELSE The({<<Slice(s, m[1], m[2] - 1)>> \o FindIter(pat, s, m[2]) :
                   m \in {ViolationMatchAt(pat, s, Leftmost(hits))}}) :
         hits \in {{i \in pos..Len(s) : ViolationMatchAt(pat, s, i)[1] # 0}}})

InSeq(x, list) == \E n \in 1..Len(list) : list[n] = x

\* for each match: build the entry, append it if it is not in the list yet
RECURSIVE AppendNew(_, _, _)
AppendNew(list, prefix, groups) ==
  IF Len(groups) = 0 THEN list
  ELSE AppendNew(IF InSeq(prefix \o groups[1], list) THEN list
                 ELSE Append(list, prefix \o groups[1]),
                 prefix, Tail(groups))

\* The third pattern of each list is the first one behind an optional
\* lead-in (Pursuant to | Under | Violat...), so its matches end where the
\* first pattern's do and its group(1) values are the first pattern's.
ArsViolations(textClean) ==
  The({AppendNew(AppendNew(AppendNew(<<>>, sArsPrefix, g1), sArsPrefix, g2),
                 sArsPrefix, g1) :
         g1 \in {FindIter("ars1", textClean, 1)},
         g2 \in {FindIter("ars2", textClean, 1)}})

AacViolations(textClean) ==
  The({AppendNew(AppendNew(AppendNew(<<>>, sAacPrefix, g1), sAacPrefix, g2),
                 sAacPrefix, g1) :
         g1 \in {FindIter("aac1", textClean, 1)},
         g2 \in {FindIter("aac2", textClean, 1)}})

(***************************************************************************)
(* comprehensive_processor.py: document classification                     *)
(***************************************************************************)
\* doc_type_indicators, in the insertion order of the dict
DocTypeOrder == <<"final_order", "findings_of_fact", "notice_of_hearing", "motion", "complaint", "settlement", "dismissal", "summary_judgment">>

DocTypeIndicators(t) ==
  CASE t = "final_order" ->
         {<<"F","I","N","A","L"," ","O","R","D","E","R">>,
          <<"O","R","D","E","R"," ","A","N","D"," ","D","E","C","I","S","I","O","N">>,
          <<"D","E","C","I","S","I","O","N"," ","A","N","D"," ","O","R","D","E","R">>}
    [] t = "findings_of_fact" ->
         {<<"F","I","N","D","I","N","G","S"," ","O","F"," ","F","A","C","T">>,
          <<"F","I","N","D","I","N","G","S"," ","A","N","D"," ","C","O","N","C","L","U","S","I","O","N","S">>}
    [] t = "notice_of_hearing" ->
         {<<"N","O","T","I","C","E"," ","O","F"," ","H","E","A","R","I","N","G">>,
          <<"H","E","A","R","I","N","G"," ","N","O","T","I","C","E">>}
    [] t = "motion" ->
         {<<"M","O","T","I","O","N"," ","F","O","R">>,
          <<"M","O","T","I","O","N"," ","T","O">>}
    [] t = "complaint" ->
         {<<"C","O","M","P","L","A","I","N","T">>,
          <<"P","E","T","I","T","I","O","N">>}
    [] t = "settlement" ->
         {<<"C","O","N","S","E","N","T"," ","O","R","D","E","R">>,
          <<"S","E","T","T","L","E","M","E","N","T"," ","A","G","R","E","E","M","E","N","T">>}
    [] t = "dismissal" ->
         {<<"O","R","D","E","R"," ","O","F"," ","D","I","S","M","I","S","S","A","L">>,
          <<"D","I","S","M","I","S","S","A","L">>}
    [] t = "summary_judgment" ->
         {<<"S","U","M","M","A","R","Y"," ","J","U","D","G","M","E","N","T">>,
          <<"M","O","T","I","O","N"," ","F","O","R"," ","S","U","M","M","A","R","Y"," ","J","U","D","G","M","E","N","T">>}

\* document_type after the loop of lines 546-551: every type whose indicator
\* occurs assigns, the inner break leaves only the indicator loop
RECURSIVE ClassifyFrom(_, _, _)
ClassifyFrom(textUpper, n, current) ==
  IF n > Len(DocTypeOrder) THEN current
  ELSE ClassifyFrom(textUpper, n + 1,
         IF \E ind \in DocTypeIndicators(DocTypeOrder[n]) :
              Contains(textUpper, ind)
         THEN DocTypeOrder[n] ELSE current)

DocumentType(text) == ClassifyFrom(StrUpper(text), 1, "unknown")

\* a scale on which a settlement weighs what every other type does
SettlementUnweighted(docType) ==
  IF docType \in {"final_order", "decision_and_order"} THEN 30
  ELSE IF docType \in {"findings_of_fact", "conclusions_of_law"} THEN 25
  ELSE 10

\* authority_weight, in tenths (3.0 is 30), lines 554-563
AuthorityWeight(docType) ==
  IF docType \in {"final_order", "decision_and_order"} THEN 30
  ELSE IF docType \in {"findings_of_fact", "conclusions_of_law"} THEN 25
  ELSE IF docType \in {"settlement", "consent_order"} THEN 20
  ELSE 10

\* is_primary_authority: set on the first two branches, default False
IsPrimaryAuthority(docType) ==
  docType \in {"final_order", "decision_and_order",
               "findings_of_fact", "conclusions_of_law"}

\* _classify_document
ClassifyDocument(text) ==
  The({[document_type |-> t, decision_type |-> t,
        authority_weight |-> AuthorityWeight(t),
        is_primary_authority |-> IsPrimaryAuthority(t)] :
         t \in {DocumentType(text)}})

(***************************************************************************)
(* Name validators                                                         *)
(***************************************************************************)
PartyInvalidTerms ==
  {<<"r","e","s","p","o","n","d","e","n","t">>,
   <<"p","e","t","i","t","i","o","n","e","r">>,
   <<"c","o","m","p","l","a","i","n","a","n","t">>,
   <<"m","a","t","t","e","r">>,
   <<"c","a","s","e">>,
   <<"d","o","c","k","e","t">>}
AttorneyInvalidTerms ==
  {<<"c","o","p","y">>,
   <<"o","r","d","e","r">>,
   <<"d","e","c","i","s","i","o","n">>,
   <<"a","r","i","z","o","n","a">>,
   <<"d","e","p","a","r","t","m","e","n","t">>,
   <<"t","r","a","n","s","m","i","t","t","e","d">>}
JudgeInvalidTerms == AttorneyInvalidTerms \cup {<<"p","a","g","e">>}
\* extract_attorneys_final.py, OAHAttorneyExtractor.invalid_terms
OahInvalidTerms ==
  {<<"a","s","s","o","c","i","a","t","i","o","n">>,
   <<"h","o","m","e","o","w","n","e","r","s">>,
   <<"r","e","s","p","o","n","d","e","n","t">>,
   <<"p","e","t","i","t","i","o","n","e","r">>,
   <<"r","e","p","r","e","s","e","n","t","e","d">>,
   <<"a","p","p","e","a","r","e","d">>,
   <<"b","e","h","a","l","f">>,
   <<"o","f","f","i","c","e">>,
   <<"a","d","m","i","n","i","s","t","r","a","t","i","v","e">>,
   <<"h","e","a","r","i","n","g","s">>,
   <<"a","r","i","z","o","n","a">>,
   <<"d","e","p","a","r","t","m","e","n","t">>,
   <<"r","e","a","l">>,
   <<"e","s","t","a","t","e">>,
   <<"t","r","a","n","s","m","i","t","t","e","d">>,
   <<"d","e","c","i","s","i","o","n">>,
   <<"o","r","d","e","r">>,
   <<"f","i","n","d","i","n","g","s">>,
   <<"c","o","n","c","l","u","s","i","o","n","s">>,
   <<"m","a","t","t","e","r">>,
   <<"c","a","s","e">>,
   <<"d","o","c","k","e","t">>}

\* len(name.split()): the number of maximal runs of non-whitespace
WordCount(s) ==
  Cardinality({i \in 1..Len(s) :
                 ~IsSpace(s[i]) /\ (i = 1 \/ IsSpace(s[i - 1]))})

ContainsAny(s, terms) == \E t \in terms : Contains(s, t)

\* str.isupper(): a cased character exists and none is lowercase
StrIsUpper(s) ==
  /\ \E i \in 1..Len(s) : IsUpperC(s[i])
  /\ \A i \in 1..Len(s) : ~IsLowerC(s[i])

\* the length thresholds of the validators
PartyMinLen == 3
NameMinLen == 5
MaxNameLen == 50

\* _is_valid_party_name
IsValidPartyName(name) ==
  IF Len(name) < PartyMinLen THEN FALSE
  ELSE ~ContainsAny(StrLower(name), PartyInvalidTerms)

\* _is_valid_attorney_name
IsValidAttorneyName(name) ==
  IF Len(name) < NameMinLen THEN FALSE
  ELSE IF WordCount(name) < 2 THEN FALSE
  ELSE ~ContainsAny(StrLower(name), AttorneyInvalidTerms)

\* _is_valid_judge_name
IsValidJudgeName(name) ==
  IF Len(name) < NameMinLen THEN FALSE
  ELSE IF WordCount(name) < 2 THEN FALSE
  ELSE ~ContainsAny(StrLower(name), JudgeInvalidTerms)

\* OAHAttorneyExtractor._is_valid_attorney_name
OahIsValidAttorneyName(name) ==
  IF Len(name) < NameMinLen THEN FALSE
  ELSE IF WordCount(name) < 2 THEN FALSE
  ELSE IF ContainsAny(StrLower(name), OahInvalidTerms) THEN FALSE
  ELSE IF ~IsUpperC(name[1]) THEN FALSE
  ELSE IF StrIsUpper(name) THEN FALSE
  ELSE IF Len(name) > MaxNameLen THEN FALSE
  ELSE TRUE

(***************************************************************************)
(* citation_resolver.py: normalize_citation                                *)
(* The rules are taken as the source file spells them: "A^" is U+00C2,     *)
(* "a^" U+00E2, "EURO" U+20AC, "LDQUO" U+201C, "RDQUO" U+201D.              *)
(***************************************************************************)
\* str.strip()
RECURSIVE StripLeft(_)
StripLeft(s) ==
  IF Len(s) > 0 /\ IsSpace(s[1]) THEN StripLeft(Tail(s)) ELSE s
RECURSIVE StripRight(_)
StripRight(s) ==
  IF Len(s) > 0 /\ IsSpace(s[Len(s)])
  THEN StripRight(Slice(s, 1, Len(s) - 1)) ELSE s
Strip(s) == StripLeft(StripRight(s))

\* rule 2, line 29: pattern  A^ SECT A^ SECT?  replaced by  A^ SECT
sSectPat == <<"A^", "SECT", "A^">>
sSectRep == <<"A^", "SECT">>
RECURSIVE SubSection(_)
SubSection(s) ==
  IF Len(s) = 0 THEN s
  ELSE IF OccursAt(s, sSectPat, 1)
       THEN sSectRep \o SubSection(Slice(s, OptChar(s, 4, "SECT"), Len(s)))
       ELSE <<s[1]>> \o SubSection(Tail(s))

\* rule 3, line 31: every character of the class becomes "-"
DashClass == {"-", "a^", "EURO", "LDQUO", "RDQUO"}
SubDashes(s) == [i \in 1..Len(s) |-> IF s[i] \in DashClass THEN "-" ELSE s[i]]

\* rule 4, line 33:  \.$  (no newline is left after rule 1)
SubTrailingPeriod(s) ==
  IF Len(s) > 0 /\ s[Len(s)] = "." THEN Slice(s, 1, Len(s) - 1) ELSE s

\* CitationResolver.normalize_citation
NormalizeCitation(citation) ==
  SubTrailingPeriod(SubDashes(SubSection(CollapseWs(Strip(citation)))))

(***************************************************************************)
(* extract_comprehensive_metadata                                          *)
(***************************************************************************)
\* The field groups in the order extract_comprehensive_metadata runs them
\* (lines 240-267).
FieldGroups == <<"case_info", "parties", "attorneys", "judges",
                 "legal_violations", "hoa_violations", "penalties",
                 "outcomes", "dates", "classify">>
\* Where an exception can be raised: in the code of a field group, or in
\* date_parser.parse, the one call that sits inside a try (lines 522-540).
Faults == {"none", "date_parse"} \cup {FieldGroups[n] : n \in 1..Len(FieldGroups)}

\* No call of a field group is wrapped in a try: an exception raised in one
\* leaves extract_comprehensive_metadata. The bare except of line 539 catches
\* what date_parser.parse raises and the loop continues.
FaultPropagates(fault) == fault \notin {"none", "date_parse"}

\* the record after every field group has run; textClean is text_clean of
\* line 237, initial the case_number the record is constructed with, cls what
\* _classify_document assigns
ExtractedRecord(textClean, initial, cls) ==
  [raised |-> FALSE,
   case_number |-> CaseNumberAfterInfo(initial, textClean),
   adre_case_no |-> AdreCaseMatch(textClean),
   ars_violations |-> ArsViolations(textClean),
   aac_violations |-> AacViolations(textClean),
   document_type |-> cls.document_type,
   decision_type |-> cls.decision_type,
   authority_weight |-> cls.authority_weight,
   is_primary_authority |-> cls.is_primary_authority]

ExtractComprehensiveMetadata(text, filename, fault) ==
  IF FaultPropagates(fault)
  THEN [raised |-> TRUE, at |-> fault]
  ELSE CHOOSE r \in {ExtractedRecord(textClean, initial, cls) :
                       textClean \in {CollapseWs(text)},
                       initial \in {ExtractCaseNumberFromFilename(filename)},
                       cls \in {ClassifyDocument(text)}} : TRUE

(***************************************************************************)
(* Inputs of the extractor                                                 *)
(***************************************************************************)
MaxCites == 2

tokA == <<"2","4","F","-","H","0","3","-","R","E","L">>
tokB == <<"2","4","F","-","H","0","7">>
Filenames == {<<>>, sDocx, <<"n","o","t","e","s",".","p","d","f">>, tokA \o sDocx, tokB \o sDocx}
CaseSegments == {<<>>, <<"C","a","s","e"," ","N","o","."," ">> \o tokA \o <<"\n">>, <<"A","D","R","E"," ","N","o","."," ">> \o tokB \o <<" ">>}

\* A citation as it can stand in a document: the authority, the section
\* number as two parts, and how it is typed.
CiteForms ==
  {[kind |-> "ars", major |-> <<"3","2">>, minor |-> <<"2","1">>, form |-> f] :
     f \in {"plain", "wide", "ndash", "period"}}
  \cup {[kind |-> "ars", major |-> <<"3","3">>, minor |-> <<"1","8">>, form |-> "plain"],
        [kind |-> "aac", major |-> <<"4">>, minor |-> <<"2","8">>, form |-> "nosym"]}

\* the section number every form of a citation stands for
CiteNumber(c) == c.major \o <<"-">> \o c.minor

RenderCite(c) ==
  LET dash == IF c.form = "ndash" THEN <<"NDASH">> ELSE <<"-">>
      num  == c.major \o dash \o c.minor
      dot  == IF c.form = "period" THEN <<".">> ELSE <<>>
  IN IF c.kind = "ars"
     THEN CASE c.form = "wide"  -> sARS \o <<".", " ", "\n", cSect, " ", " ">> \o num
            [] c.form = "nosym" -> sARS \o <<".", " ">> \o num
            [] OTHER            -> sARS \o <<".", " ", cSect, " ">> \o num \o dot
     ELSE CASE c.form = "nosym" -> sAAC \o <<".", " ">> \o num
            [] OTHER            -> sAAC \o <<".", " ", "R">> \o num

RECURSIVE RenderCites(_)
RenderCites(cs) ==
  IF Len(cs) = 0 THEN <<>>
  ELSE RenderCite(cs[1]) \o <<" ", "x", " ">> \o RenderCites(Tail(cs))

CiteLists == UNION {[1..n -> CiteForms] : n \in 0..MaxCites}

ExtractInputs ==
  {[text |-> cs \o RenderCites(cl), filename |-> fn, cites |-> cl] :
     cs \in CaseSegments, cl \in CiteLists, fn \in Filenames}

NoStore ==
  /\ coll = <<>>
  /\ index = <<>>
  /\ lastOp = "none"
  /\ result = <<>>
  /\ citation_cache = <<>>

InitExtract ==
  /\ NoStore
  /\ xin \in ExtractInputs
  /\ xout = Pending

\* one call of extract_comprehensive_metadata on the input
Extract ==
  /\ xout = Pending
  /\ \E fault \in Faults :
       xout' = ExtractComprehensiveMetadata(xin.text, xin.filename, fault)
  /\ UNCHANGED <<coll, index, lastOp, result, xin, citation_cache>>

NextExtract == Extract

SpecExtract == InitExtract /\ [][NextExtract]_vars

(***************************************************************************)
(* Claims on the extractor                                                 *)
(***************************************************************************)
Extracted == xout # Pending /\ ~xout.raised

\* C2: for every text and every filename (the empty one and one that is only
\* an extension included) the returned Case Record has a non-empty
\* case_number.
C2_CaseNumberNonEmpty == Extracted => xout.case_number # <<>>

\* C3: a failure in any one field group is treated as "field absent": the
\* call still returns a Case Record and never raises.
C3_NeverRaises == xout # Pending => ~xout.raised

\* C4: when the text holds an in-text case-number match, case_number is that
\* match; the filename-derived value is used only when there is none.
C4_InTextWins ==
  Extracted =>
    LET m == AdreCaseMatch(CollapseWs(xin.text))
    IN IF m # None THEN xout.case_number = m
       ELSE xout.case_number = ExtractCaseNumberFromFilename(xin.filename)

\* the entries a list must hold: one per section number cited for the
\* authority, however the citations are typed
CitedNumbers(kind) ==
  {CiteNumber(xin.cites[n]) : n \in {m \in 1..Len(xin.cites) : xin.cites[m].kind = kind}}
OneEntryPerNumber(list, prefix, kind) ==
  /\ {list[n] : n \in 1..Len(list)} = {prefix \o num : num \in CitedNumbers(kind)}
  /\ Len(list) = Cardinality(CitedNumbers(kind))

\* C5: after _extract_legal_violations, ars_violations and aac_violations
\* hold exactly one entry per normalized citation value, whatever the order
\* and the formatting (whitespace, dash variant, trailing period) of the
\* citations in the text.
C5_OneEntryPerCitation ==
  Extracted =>
    /\ OneEntryPerNumber(xout.ars_violations, sArsPrefix, "ars")
    /\ OneEntryPerNumber(xout.aac_violations, sAacPrefix, "aac")

(***************************************************************************)
(* normalize_citation applied once and twice                               *)
(***************************************************************************)
MaxCitLen == 4
NormAlphabet == {"3", " ", ".", "-", "SECT", "A^"}
CitStrings == UNION {[1..n -> NormAlphabet] : n \in 0..MaxCitLen}

InitNorm ==
  /\ NoStore
  /\ xin \in CitStrings
  /\ xout = Pending

Normalize ==
  /\ xout = Pending
  /\ xout' = [once |-> NormalizeCitation(xin),
              twice |-> NormalizeCitation(NormalizeCitation(xin))]
  /\ UNCHANGED <<coll, index, lastOp, result, xin, citation_cache>>

NextNorm == Normalize

SpecNorm == InitNorm /\ [][NextNorm]_vars

\* C6: normalize_citation is idempotent, for every citation string
\* (several trailing periods, whitespace before a trailing period included).
C6_NormalizeIdempotent == xout # Pending => xout.twice = xout.once

(***************************************************************************)
(* The name validators applied to candidate names                          *)
(***************************************************************************)
MaxWords == 3
NameWords ==
  {<<"J","a","n","e">>,
   <<"S","m","i","t","h">>,
   <<"A",".">>,
   <<"O","R","D","E","R">>,
   <<"S","M","I","T","H">>,
   <<"R","e","s","p","o","n","d","e","n","t">>,
   <<"J","o">>,
   <<"A","b","c","d","e","f","g","h","i","j","k","l","m","n","o","p","q","r","s","t","u","v","w","x","y","z">>}

RECURSIVE JoinWords(_)
JoinWords(ws) ==
  IF Len(ws) = 0 THEN <<>>
  ELSE IF Len(ws) = 1 THEN ws[1]
  ELSE ws[1] \o <<" ">> \o JoinWords(Tail(ws))

CandidateNames ==
  {JoinWords(ws) : ws \in UNION {[1..n -> NameWords] : n \in 1..MaxWords}}

InitValidate ==
  /\ NoStore
  /\ xin \in CandidateNames
  /\ xout = Pending

Validate ==
  /\ xout = Pending
  /\ xout' = [party |-> IsValidPartyName(xin),
              attorney |-> IsValidAttorneyName(xin),
              judge |-> IsValidJudgeName(xin),
              oah_attorney |-> OahIsValidAttorneyName(xin)]
  /\ UNCHANGED <<coll, index, lastOp, result, xin, citation_cache>>

NextValidate == Validate

SpecValidate == InitValidate /\ [][NextValidate]_vars

\* the defects the validators are to reject, minLen the validator's own
\* minimum length
StopTerms == {<<"r","e","s","p","o","n","d","e","n","t">>, <<"o","r","d","e","r">>}
NameDefect(name, minLen) ==
  \/ Len(name) < minLen
  \/ WordCount(name) < 2
  \/ ContainsAny(StrLower(name), StopTerms)
  \/ StrIsUpper(name)
  \/ Len(name) > MaxNameLen

\* C10: each name validator of the extractor (party, attorney, judge)
\* rejects a candidate that is under its minimum length, is a single word,
\* holds a stop-term ("respondent", "order"), is all uppercase or is
\* overlong, and accepts a mixed-case name of two or more words with none
\* of these defects.
C10_ValidatorsRejectDefects ==
  xout # Pending =>
    /\ NameDefect(xin, PartyMinLen) => ~xout.party
    /\ NameDefect(xin, NameMinLen) => (~xout.attorney /\ ~xout.judge)
    /\ ~NameDefect(xin, NameMinLen)
         => (xout.party /\ xout.attorney /\ xout.judge)

(***************************************************************************)
(* _classify_document applied to two documents                             *)
(***************************************************************************)
ClassTexts ==
  {<<>>,
   <<"F","I","N","A","L"," ","O","R","D","E","R">>,
   <<"D","E","C","I","S","I","O","N"," ","A","N","D"," ","O","R","D","E","R">>,
   <<"F","i","n","d","i","n","g","s"," ","o","f"," ","F","a","c","t">>,
   <<"N","O","T","I","C","E"," ","O","F"," ","H","E","A","R","I","N","G">>,
   <<"M","O","T","I","O","N"," ","T","O"," ","c","o","m","p","e","l">>,
   <<"M","o","t","i","o","n"," ","f","o","r"," ","S","u","m","m","a","r","y"," ","J","u","d","g","m","e","n","t">>,
   <<"C","O","M","P","L","A","I","N","T">>,
   <<"C","O","N","S","E","N","T"," ","O","R","D","E","R">>,
   <<"S","e","t","t","l","e","m","e","n","t"," ","A","g","r","e","e","m","e","n","t">>,
   <<"O","R","D","E","R"," ","O","F"," ","D","I","S","M","I","S","S","A","L">>,
   <<"a"," ","l","e","t","t","e","r">>}

InitClassify ==
  /\ NoStore
  /\ xin \in ClassTexts \X ClassTexts
  /\ xout = Pending

Classify ==
  /\ xout = Pending
  /\ xout' = [docs |-> <<ClassifyDocument(xin[1]), ClassifyDocument(xin[2])>>]
  /\ UNCHANGED <<coll, index, lastOp, result, xin, citation_cache>>

NextClassify == Classify

SpecClassify == InitClassify /\ [][NextClassify]_vars

TopTypes == {"final_order", "findings_of_fact"}
NoIndicator(text) ==
  \A n \in 1..Len(DocTypeOrder) :
    ~ContainsAny(StrUpper(text), DocTypeIndicators(DocTypeOrder[n]))

\* C9: the authority weight is a fixed ordinal scale: final_order and
\* findings_of_fact weigh strictly more than settlement, settlement strictly
\* more than motion and every other type; a document matching no indicator
\* is "unknown" with the lowest weight; a final order outweighs a motion.
C9_AuthorityScale ==
  xout # Pending =>
    \A i \in 1..2 : \A j \in 1..2 :
      LET a == xout.docs[i]
          b == xout.docs[j]
      IN /\ (a.document_type \in TopTypes /\ b.document_type = "settlement")
              => a.authority_weight > b.authority_weight
         /\ (a.document_type = "settlement"
               /\ b.document_type \notin TopTypes \cup {"settlement"})
              => a.authority_weight > b.authority_weight
         /\ (a.document_type = "final_order" /\ b.document_type = "motion")
              => a.authority_weight > b.authority_weight
         /\ NoIndicator(xin[i])
              => (a.document_type = "unknown"
                  /\ a.authority_weight <= b.authority_weight)

\* a final order and a motion have both been classified
C9_Witness ==
  /\ xout # Pending
  /\ xout.docs[1].document_type = "final_order"
  /\ xout.docs[2].document_type = "motion"

(***************************************************************************)
(* The stores and the documents that are ingested                          *)
(***************************************************************************)
\* the collections, in the order the retriever is given them
ProjectSeq == <<"pA", "pB">>
Projects == {ProjectSeq[n] : n \in 1..Len(ProjectSeq)}

\* A file: its name, the digest of its bytes, and the paragraph texts the
\* loader returns for it (none for a file the loader cannot read).
fileA == [name |-> tokA \o sDocx, sha256 |-> "h1",
          texts |-> << <<"C","a","s","e"," ","N","o","."," ","2","4","F","-","H","0","3","-","R","E","L">>, <<"F","I","N","A","L"," ","O","R","D","E","R",":"," ","p","a","y"," ","f","i","n","e",".">> >>]
fileRhg == [name |-> tokA \o sRHG \o sDocx, sha256 |-> "h2",
            texts |-> << <<"r","e","h","e","a","r","i","n","g"," ","s","e","t">> >>]
fileCopy == [name |-> <<"c","o","p","y",".","d","o","c","x">>, sha256 |-> "h1", texts |-> fileA.texts]
fileScan == [name |-> <<"s","c","a","n",".","p","d","f">>, sha256 |-> "h3", texts |-> <<>>]
Files == {fileA, fileRhg, fileCopy, fileScan}

\* "\n".join(texts)
RECURSIVE JoinLines(_)
JoinLines(texts) ==
  IF Len(texts) = 0 THEN <<>>
  ELSE IF Len(texts) = 1 THEN texts[1]
  ELSE texts[1] \o <<"\n">> \o JoinLines(Tail(texts))

\* Path.stem: the name without its last suffix
Stem(name) ==
  LET dots == {i \in 2..Len(name) : name[i] = "."}
  IN IF dots = {} THEN name
     ELSE Slice(name, 1, (CHOOSE d \in dots : \A e \in dots : e <= d) - 1)

\* a metadata key that is not set
Absent == <<"<absent>">>

(***************************************************************************)
(* legal_processor.py: the legacy case number and the priority chunks      *)
(***************************************************************************)
IsLegacyIdChar(c) == IsUpperC(c) \/ IsDigit(c) \/ c = "-"
SkipLegacyId(s, i) ==
  CHOOSE j \in i..(Len(s) + 1) :
    /\ \A k \in i..(j - 1) : IsLegacyIdChar(s[k])
    /\ (j = Len(s) + 1 \/ ~IsLegacyIdChar(s[j]))

\* start of group 1 of  No\.?\s*([A-Z0-9\-]+)  for "No" at position i
LegacyIdStart(s, i) == SkipSpaces(s, OptChar(s, i + 2, "."))

\* re.search(r'(?:Case\s+)?No\.?\s*([A-Z0-9\-]+)', text).group(1), or None
LegacyCaseNumber(text) ==
  LET hits == {i \in 1..Len(text) :
                 /\ LitAt(text, sNo, i, FALSE)
                 /\ SkipLegacyId(text, LegacyIdStart(text, i))
                      > LegacyIdStart(text, i)}
  IN IF hits = {} THEN None
     ELSE LET g == LegacyIdStart(text, Leftmost(hits))
          IN Slice(text, g, SkipLegacyId(text, g) - 1)

\* position of the first "." at or after e, 0 when there is none
FirstPeriod(s, e) ==
  LET ps == {i \in e..Len(s) : s[i] = "."}
  IN IF ps = {} THEN 0 ELSE Leftmost(ps)

\* End (exclusive) of  [:\s]+([^.]+\.)  from e, 0 when it does not match:
\* a colon or whitespace, at least one more character, then the first period.
HoldingTail(s, e) ==
  IF e >= 1 /\ e <= Len(s) /\ (s[e] = ":" \/ IsSpace(s[e]))
     /\ FirstPeriod(s, e) >= e + 2
  THEN FirstPeriod(s, e) + 1
  ELSE 0

\* (?:lit\s+)? at i under re.IGNORECASE: the position after it
OptWordSp(s, lit, i) ==
  IF LitAt(s, lit, i, TRUE) /\ Spaces1(s, i + Len(lit)) # 0
  THEN Spaces1(s, i + Len(lit))
  ELSE i

HoldingKeywords == { <<"H","O","L","D">>, <<"C","O","N","C","L","U","D","E">>, <<"F","I","N","D">>, <<"O","R","D","E","R">> }

\* End (exclusive) of the match of a holding pattern at i, 0 for no match.
\* The optional \s+THAT of the first pattern does not change whether or
\* where the match ends: the tail takes the same characters.
HoldingMatchAt(pat, s, i) ==
  CASE pat = "hold" ->
         LET j == OptWordSp(s, <<"T","H","E","R","E","F","O","R","E">>, OptWordSp(s, <<"W","E">>, i))
             ks == {k \in HoldingKeywords : LitAt(s, k, j, TRUE)}
         IN IF ks = {} THEN 0
            ELSE HoldingTail(s, j + Len(CHOOSE k \in ks : TRUE))
    [] pat = "ordered" ->
         IF LitAt(s, <<"I","T">>, i, TRUE) /\ Spaces1(s, i + 2) # 0
            /\ LitAt(s, <<"I","S">>, Spaces1(s, i + 2), TRUE)
            /\ Spaces1(s, Spaces1(s, i + 2) + 2) # 0
         THEN LET j == OptWordSp(s, <<"T","H","E","R","E","F","O","R","E">>,
                                 Spaces1(s, Spaces1(s, i + 2) + 2))
              IN IF LitAt(s, <<"O","R","D","E","R","E","D">>, j, TRUE)
                 THEN HoldingTail(s, j + 7) ELSE 0
         ELSE 0
    [] pat = "conclusion" ->
         IF LitAt(s, <<"C","O","N","C","L","U","S","I","O","N">>, i, TRUE)
         THEN HoldingTail(s, i + 10) ELSE 0
    [] pat = "quote" ->
         LET ks == {k \in { <<"p","r","o","v","i","d","e","s">>, <<"s","t","a","t","e","s">>, <<"r","e","a","d","s">> } :
                      LitAt(s, k, i, TRUE)}
             e == IF ks = {} THEN 0 ELSE i + Len(CHOOSE k \in ks : TRUE)
             q == IF e = 0 THEN 0
                  ELSE LET qs == {n \in e..Len(s) : s[n] = "\""}
                       IN IF qs = {} THEN 0 ELSE Leftmost(qs)
             c == IF q = 0 THEN 0
                  ELSE LET qs == {n \in (q + 1)..Len(s) : s[n] = "\""}
                       IN IF qs = {} THEN 0 ELSE Leftmost(qs)
         IN IF /\ q > e /\ c > q + 1
               /\ \A n \in e..(q - 1) : s[n] = ":" \/ IsSpace(s[n])
            THEN c + 1 ELSE 0

\* re.finditer(pattern, text, re.IGNORECASE): the matched texts, in order.
\* ends[i] is the end of the match at i; the scan goes on from the end of
\* the leftmost match at or after pos.
RECURSIVE HoldingFrom(_, _, _)
HoldingFrom(s, ends, pos) ==
  IF \A i \in pos..Len(s) : ends[i] = 0 THEN <<>>
  ELSE <<Slice(s, Leftmost({i \in pos..Len(s) : ends[i] # 0}),
               ends[Leftmost({i \in pos..Len(s) : ends[i] # 0})] - 1)>>
       \o HoldingFrom(s, ends, ends[Leftmost({i \in pos..Len(s) : ends[i] # 0})])

HoldingIter(pat, s) ==
  HoldingFrom(s, [i \in 1..Len(s) |-> HoldingMatchAt(pat, s, i)], 1)

RECURSIVE HoldingIterAll(_, _)
HoldingIterAll(pats, s) ==
  IF Len(pats) = 0 THEN <<>>
  ELSE HoldingIter(pats[1], s) \o HoldingIterAll(Tail(pats), s)

PriorityChunks(matches, priority, type) ==
  [n \in 1..Len(matches) |->
     [content |-> matches[n], priority |-> priority, type |-> type]]

\* create_hierarchical_chunks, as far as ingest reads its result: the
\* holdings with priority 1, then the statute quotes with priority 2
CreateHierarchicalChunks(text) ==
  PriorityChunks(HoldingIterAll(<<"hold", "ordered", "conclusion">>, text),
                 1, "holding")
  \o PriorityChunks(HoldingIterAll(<<"quote">>, text), 2, "statute_quote")

(***************************************************************************)
(* Chunk metadata and the priority sort                                    *)
(***************************************************************************)
\* The value under the key chunk_priority: a string (enhanced_ingest), an
\* integer (ingest), or no such key.
PrioStr(t) == [kind |-> "str", s |-> t, n |-> 0]
PrioInt(m) == [kind |-> "int", s |-> <<>>, n |-> m]
PrioAbsent == [kind |-> "absent", s |-> <<>>, n |-> 0]

tierHigh == <<"h","i","g","h">>
tierMedium == <<"m","e","d","i","u","m">>
tierNormal == <<"n","o","r","m","a","l">>
HighTerms == { <<"o","r","d","e","r">>, <<"f","i","n","d","i","n","g">>, <<"c","o","n","c","l","u","s","i","o","n">>, <<"v","i","o","l","a","t","i","o","n">> }
MediumTerms == { <<"a","t","t","o","r","n","e","y">>, <<"e","s","q">>, <<"j","u","d","g","e">>, <<"h","e","a","r","i","n","g">> }

\* the chain with the two tests in the other order
ChunkPriorityMediumFirst(chunk) ==
  IF ContainsAny(StrLower(chunk), MediumTerms) THEN tierMedium
  ELSE IF ContainsAny(StrLower(chunk), HighTerms) THEN tierHigh
  ELSE tierNormal

\* the tier enhanced_ingest gives a chunk
ChunkPriority(chunk) ==
  IF ContainsAny(StrLower(chunk), HighTerms) THEN tierHigh
  ELSE IF ContainsAny(StrLower(chunk), MediumTerms) THEN tierMedium
  ELSE tierNormal

\* metadata.get('chunk_priority', 999)
DefaultPriority == 999
SortKey(ch) ==
  IF ch.chunk_priority.kind = "absent" THEN PrioInt(DefaultPriority)
  ELSE ch.chunk_priority

\* Python's < on two strings of lowercase letters
CharOrd(c) == CHOOSE i \in 1..26 : LowerSeq[i] = c
RECURSIVE StrLess(_, _)
StrLess(a, b) ==
  IF Len(b) = 0 THEN FALSE
  ELSE IF Len(a) = 0 THEN TRUE
  ELSE IF a[1] = b[1] THEN StrLess(Tail(a), Tail(b))
  ELSE CharOrd(a[1]) < CharOrd(b[1])

\* Python's < on two keys of one type
KeyLess(a, b) == IF a.kind = "int" THEN a.n < b.n ELSE StrLess(a.s, b.s)

\* list.sort raises TypeError when it has to compare a str with an int
SortRaises(chunks) ==
  \E i \in 1..Len(chunks) : \E j \in 1..Len(chunks) :
    SortKey(chunks[i]).kind # SortKey(chunks[j]).kind

\* list.sort(key=...) is stable: x goes after every element not greater
InsertByKey(sorted, x) ==
  LET after == {n \in 1..Len(sorted) : KeyLess(SortKey(x), SortKey(sorted[n]))}
      at == IF after = {} THEN Len(sorted) + 1 ELSE Leftmost(after)
  IN Slice(sorted, 1, at - 1) \o <<x>> \o Slice(sorted, at, Len(sorted))

RECURSIVE SortByPriority(_)
SortByPriority(chunks) ==
  IF Len(chunks) = 0 THEN <<>>
  ELSE InsertByKey(SortByPriority(Slice(chunks, 1, Len(chunks) - 1)),
                   chunks[Len(chunks)])

(***************************************************************************)
(* enhanced_ingest.py: ingest_document_comprehensive                       *)
(***************************************************************************)
MaxStoreChunks == 3

FullText(f) == JoinLines(f.texts)

\* What the processors return for each file: path.stem, the tier of each
\* chunk, the legacy case number, the priority chunks, and the record of the
\* comprehensive extractor for each place where it can raise.
IngestFaults == {"none", "parties"}
ProcessedAs(f, fullText) ==
  [stem |-> Stem(f.name),
   tiers |-> [i \in 1..Len(f.texts) |-> ChunkPriority(f.texts[i])],
   legacy_case |-> LegacyCaseNumber(fullText),
   hierarchical |-> CreateHierarchicalChunks(fullText),
   comprehensive |->
     [fault \in IngestFaults |->
        ExtractComprehensiveMetadata(fullText, f.name, fault)]]
Processed ==
  [f \in Files |-> The({ProcessedAs(f, fullText) : fullText \in {FullText(f)}})]

StoredChunks(stores) == Len(stores[ProjectSeq[1]]) + Len(stores[ProjectSeq[2]])

\* a check that finds no chunk, whatever the collection holds
NeverProcessed(c, digest) == FALSE

\* collection.get(where={"sha256": digest})['ids'] is not empty
AlreadyProcessed(c, digest) == \E n \in 1..Len(c) : c[n].sha256 = digest

\* MetadataIndex.add_document: index[sha256] = metadata
AddDocument(ix, rec) == {r \in ix : r.sha256 # rec.sha256} \cup {rec}

\* The keys of a chunk's metadata record: base_metadata starts with source
\* and sha256; each of the two stages, when it has run to its end, adds
\* document_type, authority_weight, is_primary_authority and case_number.
BaseKeys == {"source", "sha256"}
StageKeys ==
  {"document_type", "authority_weight", "is_primary_authority", "case_number"}

MetadataKeys(staged) == IF staged THEN BaseKeys \cup StageKeys ELSE BaseKeys

LegalMetadata(f, processed) ==
  [sha256 |-> f.sha256, file_name |-> f.name,
   case_number |-> processed.legacy_case]

\* The chunks of a file as ingest_document_comprehensive stores them.
\* extracted: what the comprehensive stage has returned (comprehensive_case
\* stays None when the stage is disabled or has raised); legal: the legacy
\* stage is enabled.
DocumentChunks(f, processed, extracted, legal) ==
  [i \in 1..Len(f.texts) |->
     [id |-> [stem |-> processed.stem, n |-> i - 1],
      source |-> f.name,
      sha256 |-> f.sha256,
      case_number |-> IF ~extracted.raised THEN extracted.case_number
                      ELSE IF legal THEN processed.legacy_case
                      ELSE Absent,
      chunk_priority |-> IF ~extracted.raised
                         THEN PrioStr(processed.tiers[i])
                         ELSE PrioAbsent,
      keys |-> MetadataKeys(~extracted.raised \/ legal)]]

IngestOp(kind, p, fs, outcome) ==
  [op |-> kind, project |-> p,
   files |-> [n \in 1..Len(fs) |-> fs[n].name],
   digests |-> {fs[n].sha256 : n \in 1..Len(fs)},
   outcome |-> outcome]

\* the call ends without a change of the stores
IngestNothing(kind, p, fs, outcome) ==
  /\ lastOp' = IngestOp(kind, p, fs, outcome)
  /\ result' = <<>>
  /\ UNCHANGED <<coll, index, xin, xout, citation_cache>>

\* the call ends with chunks added to collection p and ix as the index of p
IngestAdded(kind, p, fs, chunks, ix) ==
  /\ StoredChunks(coll) + Len(chunks) <= MaxStoreChunks
  /\ coll' = [coll EXCEPT ![p] = @ \o chunks]
  /\ index' = [index EXCEPT ![p] = ix]
  /\ lastOp' = IngestOp(kind, p, fs, "added")
  /\ result' = <<>>
  /\ UNCHANGED <<xin, xout, citation_cache>>

\* one call of ingest_document_comprehensive(path, ..., collection_name=p,
\* enable_legal_processing=legal, enable_comprehensive_processing=comp),
\* fault being where the comprehensive extractor raises, if it does, and
\* processed what the processors return for the file
IngestDocument(f, p, comp, legal, fault, processed) ==
  IF AlreadyProcessed(coll[p], f.sha256)
  THEN IngestNothing("ingest_document", p, <<f>>, "skipped")
  ELSE IF Len(f.texts) = 0
  THEN IngestNothing("ingest_document", p, <<f>>, "no_text")
  ELSE \E extracted \in {IF comp THEN processed.comprehensive[fault]
                          ELSE [raised |-> TRUE, at |-> "disabled"]} :
         \E chunks \in {DocumentChunks(f, processed, extracted, legal)} :
           IngestAdded("ingest_document", p, <<f>>, chunks,
                       IF legal
                       THEN AddDocument(index[p], LegalMetadata(f, processed))
                       ELSE index[p])

(***************************************************************************)
(* ingest.py: ingest                                                       *)
(***************************************************************************)
MaxRunFiles == 2

RunDoc(f, caseNumber, priority, staged) ==
  [source |-> f.name, sha256 |-> f.sha256, case_number |-> caseNumber,
   chunk_priority |-> priority, keys |-> MetadataKeys(staged)]

\* the Documents one file contributes to new_docs: with legal processing and
\* a text, the priority chunks and then the texts; else the texts alone
FileDocs(f, legal, processed) ==
  IF legal /\ Len(f.texts) > 0
  THEN [n \in 1..Len(processed.hierarchical) |->
          RunDoc(f, processed.legacy_case,
                 PrioInt(processed.hierarchical[n].priority), TRUE)]
       \o [n \in 1..Len(f.texts) |->
          RunDoc(f, processed.legacy_case, PrioAbsent, TRUE)]
  ELSE [n \in 1..Len(f.texts) |-> RunDoc(f, Absent, PrioAbsent, FALSE)]

\* the loop over the files: a file whose digest is in existing is passed over
RECURSIVE RunDocs(_, _, _, _)
RunDocs(fs, existing, legal, processed) ==
  IF Len(fs) = 0 THEN <<>>
  ELSE (IF fs[1].sha256 \in existing THEN <<>>
        ELSE FileDocs(fs[1], legal, processed[fs[1]]))
       \o RunDocs(Tail(fs), existing, legal, processed)

RECURSIVE RunIndex(_, _, _, _, _)
RunIndex(ix, fs, existing, legal, processed) ==
  IF Len(fs) = 0 THEN ix
  ELSE RunIndex(IF fs[1].sha256 \notin existing /\ legal /\ Len(fs[1].texts) > 0
                THEN AddDocument(ix, LegalMetadata(fs[1], processed[fs[1]]))
                ELSE ix,
                Tail(fs), existing, legal, processed)

\* the ids the vector store gives the chunks it is handed
WithIds(docs, base) ==
  [n \in 1..Len(docs) |->
     [id |-> [stem |-> <<"uuid">>, n |-> base + n],
      source |-> docs[n].source,
      sha256 |-> docs[n].sha256,
      case_number |-> docs[n].case_number,
      chunk_priority |-> docs[n].chunk_priority,
      keys |-> docs[n].keys]]

RunFiles ==
  {fs \in UNION {[1..n -> Files] : n \in 1..MaxRunFiles} :
     \A i \in 1..Len(fs) : \A j \in 1..Len(fs) : i # j => fs[i] # fs[j]}

\* existing: the digests found in the collection when the run starts
ExistingDigests(c) == {c[n].sha256 : n \in 1..Len(c)}

\* the end of the run: nothing to embed, or the chunks go to the store,
\* sorted by priority when legal processing is enabled
RunEnd(fs, p, legal, newDocs, ix) ==
  IF Len(newDocs) = 0
  THEN IngestNothing("ingest_run", p, fs, "skipped")
  ELSE IngestAdded("ingest_run", p, fs, WithIds(newDocs, Len(coll[p])), ix)

\* one run of ingest(pdf_dir, project=p, enable_legal_processing=legal)
\* over a directory that holds the files fs
IngestRun(fs, p, legal, processed) ==
  \E existing \in {ExistingDigests(coll[p])} :
    \E newDocs \in {RunDocs(fs, existing, legal, processed)} :
      \E chunks \in {IF legal THEN SortByPriority(newDocs) ELSE newDocs} :
        RunEnd(fs, p, legal, chunks,
               RunIndex(index[p], fs, existing, legal, processed))

(***************************************************************************)
(* hybrid_retriever.py: what a query is taken to ask for                   *)
(***************************************************************************)
\* End (exclusive) of  \d{2}[A-Z]-[A-Z]\d+ followed by \b  at i, 0 for none
BareTokEnd(s, i) ==
  IF /\ i >= 1
     /\ i + 5 <= Len(s)
     /\ IsDigit(s[i]) /\ IsDigit(s[i + 1])
     /\ IsAlpha(s[i + 2])
     /\ s[i + 3] = "-"
     /\ IsAlpha(s[i + 4])
     /\ IsDigit(s[i + 5])
  THEN LET ends == {d \in (i + 6)..SkipDigits(s, i + 5) : WordBoundary(s, d)}
       IN IF ends = {} THEN 0 ELSE CHOOSE d \in ends : \A e \in ends : e <= d
  ELSE 0

\* start of the token in  \bcase\s+(?:number\s+)?(TOKEN)\b  for "case" at i
CaseWordTokStart(s, i) ==
  IF WordBoundary(s, i) /\ LitAt(s, StrLower(sCase), i, TRUE)
     /\ Spaces1(s, i + 4) # 0
  THEN LET j == Spaces1(s, i + 4)
           n == OptWordSp(s, <<"n","u","m","b","e","r">>, j)
       IN IF n # j /\ CaseTokEnd(s, n, TRUE, TRUE) # 0 THEN n ELSE j
  ELSE 0

\* _extract_case_number: the first of the three patterns that matches,
\* group 1 in upper case; None when none matches
QueryCaseNumber(query) ==
  LET m1 == CaseTokSearch(query, TRUE, TRUE)
      h2 == {i \in 1..Len(query) :
               /\ CaseWordTokStart(query, i) # 0
               /\ CaseTokEnd(query, CaseWordTokStart(query, i), TRUE, TRUE) # 0}
      h3 == {i \in 1..Len(query) :
               WordBoundary(query, i) /\ BareTokEnd(query, i) # 0}
  IN IF m1[1] # 0 THEN StrUpper(Slice(query, m1[1], m1[2] - 1))
     ELSE IF h2 # {}
     THEN LET j == CaseWordTokStart(query, Leftmost(h2))
          IN StrUpper(Slice(query, j, CaseTokEnd(query, j, TRUE, TRUE) - 1))
     ELSE IF h3 # {}
     THEN StrUpper(Slice(query, Leftmost(h3),
                         BareTokEnd(query, Leftmost(h3)) - 1))
     ELSE None

SkipLetters(s, i) ==
  CHOOSE j \in i..(Len(s) + 1) :
    /\ \A k \in i..(j - 1) : IsAlpha(s[k])
    /\ (j = Len(s) + 1 \/ ~IsAlpha(s[j]))

\* The ends (exclusive) of the matches of
\*   [A-Z][a-z]+(?:\s+[A-Z]\.?\s*)?[A-Z][a-z]+
\* at j under re.IGNORECASE, where every class is any letter: four or more
\* letters, or two or more letters, whitespace, a letter with an optional
\* period and whitespace, and two or more letters.
NameEnds(s, j) ==
  LET a == SkipLetters(s, j)
      b == SkipSpaces(s, a)
      c == SkipSpaces(s, OptChar(s, b + 1, "."))
      middle == a - j >= 2 /\ b > a /\ b <= Len(s) /\ IsAlpha(s[b])
  IN {e \in (j + 4)..a : TRUE}
     \cup (IF middle THEN {e \in (c + 2)..SkipLetters(s, c) : TRUE} ELSE {})

\* ,?\s+(?:Esq|attorney) at e
EsqAt(s, e) ==
  LET r == Spaces1(s, OptChar(s, e, ","))
  IN r # 0 /\ (LitAt(s, <<"E","s","q">>, r, TRUE) \/ LitAt(s, <<"a","t","t","o","r","n","e","y">>, r, TRUE))

\* _extract_attorney_name(query) is not None: one of the three patterns
\* matches somewhere in the query
AttorneyNameDetected(query) ==
  \E i \in 1..Len(query) :
    \/ /\ LitAt(query, <<"a","t","t","o","r","n","e","y">>, i, TRUE)
       /\ Spaces1(query, i + 8) # 0
       /\ NameEnds(query, Spaces1(query, i + 8)) # {}
    \/ \E e \in NameEnds(query, i) : EsqAt(query, e)
    \/ /\ LitAt(query, <<"l","a","w","y","e","r">>, i, TRUE)
       /\ Spaces1(query, i + 6) # 0
       /\ NameEnds(query, Spaces1(query, i + 6)) # {}

(***************************************************************************)
(* hybrid_retriever.py: the three search paths                             *)
(***************************************************************************)
MaxK == 2

Take(seq, k) == Slice(seq, 1, IF k < Len(seq) THEN k ELSE Len(seq))

\* the condition of lines 103-105 on one stored chunk
MatchesCase(caseNumber, ch) ==
  \/ Contains(ch.source, caseNumber)
  \/ caseNumber = ch.case_number
  \/ Contains(ch.source, StrRemove(caseNumber, sREL))

\* the chunks of a sequence that are in a set, in their order
RECURSIVE Filter(_, _)
Filter(c, keep) ==
  IF Len(c) = 0 THEN <<>>
  ELSE (IF c[1] \in keep THEN <<c[1]>> ELSE <<>>) \o Filter(Tail(c), keep)

\* list.sort on the matches of one collection, [] when it raises
SortedOrNone(matching) ==
  IF SortRaises(matching) THEN <<>> ELSE SortByPriority(matching)

\* What one collection adds to all_docs in _search_by_metadata: nothing when
\* reading it or sorting its matches raises.
MetadataMatches(c, caseNumber, raises) ==
  IF raises THEN <<>>
  ELSE SortedOrNone(Filter(c, {c[n] : n \in {m \in 1..Len(c) :
                                              MatchesCase(caseNumber, c[m])}}))

RECURSIVE SearchAll(_, _, _, _)
SearchAll(dbs, stores, caseNumber, raising) ==
  IF Len(dbs) = 0 THEN <<>>
  ELSE MetadataMatches(stores[dbs[1]], caseNumber, dbs[1] \in raising)
       \o SearchAll(Tail(dbs), stores, caseNumber, raising)

\* _search_by_metadata; no search when no case number was detected
SearchByMetadata(dbs, stores, caseNumber, k, raising) ==
  IF caseNumber = None THEN <<>>
  ELSE Take(SearchAll(dbs, stores, caseNumber, raising), k)

\* The results similarity_search(text, k=n) can give on a collection: the
\* embedding decides which chunks, so any min(n, size) distinct chunks in
\* any order; nothing for n = 0.
Injections(m, size) ==
  {f \in [1..m -> 1..size] : \A i \in 1..m : \A j \in 1..m : i # j => f[i] # f[j]}
SimilarityResults(c, n) ==
  {[i \in 1..(IF n < Len(c) THEN n ELSE Len(c)) |-> c[pick[i]]] :
     pick \in Injections(IF n < Len(c) THEN n ELSE Len(c), Len(c))}

\* one similarity_search per collection, each for n results
SimilarityAnswers(stores, n) ==
  {[p \in Projects |-> IF p = ProjectSeq[1] THEN a ELSE b] :
     a \in SimilarityResults(stores[ProjectSeq[1]], n),
     b \in SimilarityResults(stores[ProjectSeq[2]], n)}

\* Gather as it would be with the try around the whole loop: the first
\* collection that raises ends the search
RECURSIVE GatherUntilRaise(_, _, _)
GatherUntilRaise(dbs, answers, raising) ==
  IF Len(dbs) = 0 \/ dbs[1] \in raising THEN <<>>
  ELSE answers[dbs[1]] \o GatherUntilRaise(Tail(dbs), answers, raising)

\* all_docs of _search_by_attorney and _semantic_search: the answers of the
\* collections that did not raise, in the order of the collections
RECURSIVE Gather(_, _, _)
Gather(dbs, answers, raising) ==
  IF Len(dbs) = 0 THEN <<>>
  ELSE (IF dbs[1] \in raising THEN <<>> ELSE answers[dbs[1]])
       \o Gather(Tail(dbs), answers, raising)

\* self.databases: the collections that could be opened, in order
Databases(opened) == Filter(ProjectSeq, opened)

Queries ==
  { <<"c","a","s","e"," ","2","4","f","-","h","0","3","-","r","e","l">>, <<"a","t","t","o","r","n","e","y"," ","J","a","n","e"," ","S","m","i","t","h">>, <<"f","i","n","e">>,
    <<"2","4","F","-","H","0","7"," ","a","t","t","o","r","n","e","y"," ","J","o"," ","A","b","c">> }

\* what the detectors find in each query
Detected ==
  [q \in Queries |->
     [case_number |-> QueryCaseNumber(q),
      attorney |-> AttorneyNameDetected(q),
      simple_case_number |->
        IF CaseTokSearch(q, TRUE, TRUE)[1] # 0
        THEN StrUpper(Slice(q, CaseTokSearch(q, TRUE, TRUE)[1],
                            CaseTokSearch(q, TRUE, TRUE)[2] - 1))
        ELSE None]]

\* the collections of dbs a search can read
Reached(dbs, raising) == {dbs[n] : n \in 1..Len(dbs)} \ raising

\* The call returns docs. how tells what the call did on its way: whether
\* similarity_search was issued with the name (name_search), the k of the
\* last similarity_search on each collection (project_k, 0 when there was
\* none), the collections that could be opened (active) and those of them
\* that could be read (reached).
Respond(kind, query, k, caseNumber, impaired, path, docs, how) ==
  /\ result' = docs
  /\ lastOp' = [op |-> kind, query |-> query, k |-> k,
                case_number |-> caseNumber, path |-> path,
                impaired |-> impaired, name_search |-> how.name_search,
                project_k |-> how.project_k, reached |-> how.reached,
                active |-> how.active]
  /\ UNCHANGED <<coll, index, xin, xout, citation_cache>>

\* max(1, k // len(self.databases))
ProjectK(k, n) == IF k \div n > 1 THEN k \div n ELSE 1

\* _semantic_search
SemanticSearch(query, k, dbs, raising, caseNumber, impaired, nameSearch) ==
  \E byText \in SimilarityAnswers(coll, ProjectK(k, Len(dbs))) :
    Respond("query", query, k, caseNumber, impaired, "semantic",
            Take(Gather(dbs, byText, raising), k),
            [name_search |-> nameSearch, project_k |-> ProjectK(k, Len(dbs)),
             reached |-> Reached(dbs, raising),
             active |-> Reached(dbs, {})])

\* get_relevant_documents after the two detectors have run: byCase is what
\* _search_by_metadata returns
Route(query, k, dbs, raising, caseNumber, attorney, impaired, byCase) ==
  IF Len(byCase) > 0
  THEN Respond("query", query, k, caseNumber, impaired, "metadata", byCase,
               [name_search |-> FALSE, project_k |-> 0,
                reached |-> Reached(dbs, raising),
             active |-> Reached(dbs, {})])
  ELSE IF Len(dbs) = 0
  THEN Respond("query", query, k, caseNumber, impaired, "semantic", <<>>,
               [name_search |-> FALSE, project_k |-> 0, reached |-> {},
                active |-> {}])
  ELSE IF attorney
  THEN \E byName \in SimilarityAnswers(coll, k \div Len(dbs)) :
         IF Len(Gather(dbs, byName, raising)) > 0
         THEN Respond("query", query, k, caseNumber, impaired, "attorney",
                      Take(Gather(dbs, byName, raising), k),
                      [name_search |-> TRUE, project_k |-> k \div Len(dbs),
                       reached |-> Reached(dbs, raising),
             active |-> Reached(dbs, {})])
         ELSE SemanticSearch(query, k, dbs, raising, caseNumber, impaired, TRUE)
  ELSE SemanticSearch(query, k, dbs, raising, caseNumber, impaired, FALSE)

\* HybridLegalRetriever(projects, root_dir).get_relevant_documents(query, k),
\* the collections in opened being those the constructor could open, those
\* in raising the ones whose reads raise, and detected what the detectors
\* find in the query
Query(query, k, opened, raising, detected) ==
  \E byCase \in {SearchByMetadata(Databases(opened), coll,
                                  detected.case_number, k, raising)} :
    Route(query, k, Databases(opened), raising, detected.case_number,
          detected.attorney, opened # Projects \/ raising # {}, byCase)

(***************************************************************************)
(* hybrid_retriever_simple.py: search_with_case_number_priority            *)
(***************************************************************************)
\* the chunks of a collection whose source holds the case number
SourceMatches(c, caseNumber) ==
  Filter(c, {c[n] : n \in {m \in 1..Len(c) : Contains(c[m].source, caseNumber)}})

\* The first collection, in order, that opens, has chunks whose source holds
\* the case number and sorts them without raising, gives the result.
RECURSIVE FirstCaseFile(_, _, _, _, _)
FirstCaseFile(projects, stores, caseNumber, k, opened) ==
  IF Len(projects) = 0 \/ caseNumber = None THEN <<>>
  ELSE IF /\ projects[1] \in opened
          /\ Len(SortedOrNone(SourceMatches(stores[projects[1]], caseNumber))) > 0
  THEN Take(SortedOrNone(SourceMatches(stores[projects[1]], caseNumber)), k)
  ELSE FirstCaseFile(Tail(projects), stores, caseNumber, k, opened)

SimpleRoute(query, k, opened, caseNumber, byCase) ==
  IF Len(byCase) > 0
  THEN Respond("simple_search", query, k, caseNumber, opened # Projects,
               "metadata", byCase,
               [name_search |-> FALSE, project_k |-> 0, reached |-> opened,
                active |-> opened])
  ELSE \E byText \in SimilarityAnswers(coll, k \div Len(ProjectSeq)) :
         Respond("simple_search", query, k, caseNumber, opened # Projects,
                 "semantic", Take(Gather(ProjectSeq, byText, Projects \ opened), k),
                 [name_search |-> FALSE, project_k |-> k \div Len(ProjectSeq),
                  reached |-> opened, active |-> opened])

\* search_with_case_number_priority(projects, root_dir, query, k), the
\* collections in opened being those that can be opened
SimpleSearch(query, k, opened, detected) ==
  \E byCase \in {FirstCaseFile(ProjectSeq, coll, detected.simple_case_number,
                               k, opened)} :
    SimpleRoute(query, k, opened, detected.simple_case_number, byCase)

(***************************************************************************)
(* The system: ingestion into the collections and retrieval from them      *)
(***************************************************************************)
Init ==
  /\ coll = [p \in Projects |-> <<>>]
  /\ index = [p \in Projects |-> {}]
  /\ lastOp = [op |-> "none"]
  /\ result = <<>>
  /\ xin = <<>>
  /\ xout = Pending
  /\ citation_cache = <<>>

\* The scripts and the retriever are called one at a time: a call is taken
\* when no other is in progress, and lastOp and result hold its arguments
\* and what it returned until the caller has taken them.
Idle == lastOp.op = "none"

IngestOne ==
  /\ Idle
  /\ \E f \in Files, p \in Projects, comp \in BOOLEAN, legal \in BOOLEAN,
        fault \in IngestFaults :
       \E processed \in {Processed[f]} :
         IngestDocument(f, p, comp, legal, fault, processed)

IngestDirectory ==
  /\ Idle
  /\ \E fs \in RunFiles, p \in Projects, legal \in BOOLEAN :
       \E processed \in {Processed} : IngestRun(fs, p, legal, processed)

Retrieve ==
  /\ Idle
  /\ \E query \in Queries, k \in 1..MaxK, opened \in SUBSET Projects :
       \E raising \in SUBSET opened, detected \in {Detected[query]} :
         Query(query, k, opened, raising, detected)

RetrieveSimple ==
  /\ Idle
  /\ \E query \in Queries, k \in 1..MaxK, opened \in SUBSET Projects :
       \E detected \in {Detected[query]} :
         SimpleSearch(query, k, opened, detected)

\* the call returns and its caller takes the result
Return ==
  /\ ~Idle
  /\ lastOp' = [op |-> "none"]
  /\ result' = <<>>
  /\ UNCHANGED <<coll, index, xin, xout, citation_cache>>

Next == IngestOne \/ IngestDirectory \/ Retrieve \/ RetrieveSimple \/ Return

Spec == Init /\ [][Next]_vars

(***************************************************************************)
(* Retrieval by case number                                                *)
(***************************************************************************)
\* a retrieval call has returned and its result has not been taken yet
Retrieved == lastOp.op \in {"query", "simple_search"}

\* some stored chunk belongs to the document with that case number
CaseStored(caseNumber) ==
  \E p \in Projects : \E n \in 1..Len(coll[p]) :
    coll[p][n].case_number = caseNumber

\* C1: when the query holds a case-number token and a stored chunk belongs to
\* the document with that case number (every collection being readable),
\* the result comes from the case-number path and every returned chunk
\* belongs to that document.
C1_CasePathDominance ==
  (Retrieved /\ ~lastOp.impaired /\ lastOp.case_number # None
     /\ CaseStored(lastOp.case_number))
    => /\ lastOp.path = "metadata"
       /\ \A n \in 1..Len(result) :
            result[n].case_number = lastOp.case_number

\* high 1, medium 2, normal 3, a chunk without a tier 4
TierRank(ch) ==
  IF ch.chunk_priority.kind # "str" THEN 4
  ELSE IF ch.chunk_priority.s = tierHigh THEN 1
  ELSE IF ch.chunk_priority.s = tierMedium THEN 2
  ELSE 3

\* C8: on the case-number path no chunk of a lower tier precedes a chunk of
\* a higher tier anywhere in the returned list.
C8_OrderedByTier ==
  (Retrieved /\ lastOp.path = "metadata")
    => \A i \in 1..Len(result) : \A j \in i..Len(result) :
         TierRank(result[i]) <= TierRank(result[j])

(***************************************************************************)
(* Ingesting content that is already stored                                *)
(***************************************************************************)
\* the chunks of a collection that carry a digest, in their order
ChunksOf(c, digest) ==
  Filter(c, {c[n] : n \in {m \in 1..Len(c) : c[m].sha256 = digest}})
RecordsOf(ix, digest) == {r \in ix : r.sha256 = digest}

\* C7: an ingest call on a file whose content hash is already in the
\* collection adds, changes and removes no chunk of that hash and adds or
\* replaces no metadata record of it; when every file of the call is such a
\* file, the call leaves the stores as they were.
C7_PresentHashIsSkip ==
  [][lastOp'.op \in {"ingest_document", "ingest_run"} =>
       /\ \A d \in lastOp'.digests :
            ChunksOf(coll[lastOp'.project], d) # <<>> =>
              /\ \A p \in Projects : ChunksOf(coll'[p], d) = ChunksOf(coll[p], d)
              /\ \A p \in Projects : RecordsOf(index'[p], d) = RecordsOf(index[p], d)
       /\ (\A d \in lastOp'.digests : ChunksOf(coll[lastOp'.project], d) # <<>>)
            => (coll' = coll /\ index' = index)]_vars

\* a file whose hash was in the collection, with chunks and a metadata
\* record, has been ingested again
C7_Witness ==
  /\ lastOp.op \in {"ingest_document", "ingest_run"}
  /\ lastOp.outcome = "skipped"
  /\ \A d \in lastOp.digests :
       /\ ChunksOf(coll[lastOp.project], d) # <<>>
       /\ RecordsOf(index[lastOp.project], d) # {}

(***************************************************************************)
(* Penalties, orders and the ruling                                        *)
(* (comprehensive_processor.py: penalty_patterns 201-217, lines 445-507)   *)
(***************************************************************************)
\* words separated by \s+ at i, under re.IGNORECASE: the end of the match
\* (exclusive), 0 when they do not match there
RECURSIVE PhraseEnd(_, _, _)
PhraseEnd(s, i, words) ==
  IF ~LitAt(s, words[1], i, TRUE) THEN 0
  ELSE IF Len(words) = 1 THEN i + Len(words[1])
  ELSE IF Spaces1(s, i + Len(words[1])) = 0 THEN 0
  ELSE PhraseEnd(s, Spaces1(s, i + Len(words[1])), Tail(words))

\* (?:w\s+)? as the word sequences it stands for
OptWord(w) == {<<>>, <<w>>}

\* [0-9,]+(?:\.[0-9]{2})? at i: the end of the match (exclusive), 0 for none
IsAmountChar(c) == IsDigit(c) \/ c = ","
AmountEnd(s, i) ==
  The({IF e = i THEN 0
       ELSE IF e + 2 <= Len(s) /\ s[e] = "." /\ IsDigit(s[e + 1]) /\ IsDigit(s[e + 2])
            THEN e + 3
            ELSE e :
         e \in {CHOOSE j \in i..(Len(s) + 1) :
                  /\ \A k \in i..(j - 1) : IsAmountChar(s[k])
                  /\ (j = Len(s) + 1 \/ ~IsAmountChar(s[j]))}})

FineWords == {<<"f","i","n","e">>, <<"p","e","n","a","l","t","y">>, <<"a","s","s","e","s","s","m","e","n","t">>}
\* penalty_patterns['monetary_fine']: what stands before \s+\$(amount) in the
\* first and the third pattern; the second pattern is \$(amount)\s+word
FineLeads ==
  <<{<<w>> \o o : w \in FineWords, o \in OptWord(<<"o","f">>)},
    {},
    {c \o m \o <<<<"p","e","n","a","l","t","y">>>> \o o :
       c \in OptWord(<<"c","i","v","i","l">>), m \in OptWord(<<"m","o","n","e","y">>), o \in OptWord(<<"o","f">>)}>>

\* <<start, end>> of group(1) for the lead-ins that match at i
LeadHits(s, i, leads) ==
  {h \in {<<j + 1, AmountEnd(s, j + 1)>> :
            j \in {g \in {Spaces1(s, PhraseEnd(s, i, ph)) :
                            ph \in {q \in leads : PhraseEnd(s, i, q) # 0}} :
                     g # 0 /\ g <= Len(s) /\ s[g] = "$"}} : h[2] # 0}

\* <<start of group(1), end of group(1), end of the match>> (ends exclusive)
\* of monetary-fine pattern number pat at i, zeros when it does not match
FineMatchAt(pat, s, i) ==
  IF pat = 2
  THEN IF i <= Len(s) /\ s[i] = "$" /\ AmountEnd(s, i + 1) # 0
          /\ Spaces1(s, AmountEnd(s, i + 1)) # 0
          /\ \E w \in FineWords : LitAt(s, w, Spaces1(s, AmountEnd(s, i + 1)), TRUE)
       THEN <<i + 1, AmountEnd(s, i + 1),
              The({sp + Len(CHOOSE w \in FineWords : LitAt(s, w, sp, TRUE)) :
                     sp \in {Spaces1(s, AmountEnd(s, i + 1))}})>>
       ELSE <<0, 0, 0>>
  ELSE The({IF hits = {} THEN <<0, 0, 0>>
            ELSE The({<<h[1], h[2], h[2]>> : h \in {The(hits)}}) :
              hits \in {LeadHits(s, i, FineLeads[pat])}})

\* re.finditer(pattern, text, re.IGNORECASE) from pos: the group(1) values
RECURSIVE FineIter(_, _, _)
FineIter(pat, s, pos) ==
  The({IF hits = {} THEN <<>>
       ELSE The({<<Slice(s, m[1], m[2] - 1)>> \o FineIter(pat, s, m[3]) :
                   m \in {FineMatchAt(pat, s, Leftmost(hits))}}) :
         hits \in {{i \in pos..Len(s) : FineMatchAt(pat, s, i)[1] # 0}}})

\* case.monetary_fines after lines 448-455
MonetaryFines(text) ==
  AppendNew(AppendNew(AppendNew(<<>>, <<"$">>, FineIter(1, text, 1)),
                      <<"$">>, FineIter(2, text, 1)),
            <<"$">>, FineIter(3, text, 1))

sComply == <<"c","o","m","p","l","y">>
ComplyForms == {<<sComply>>, <<<<"b","r","i","n","g">>, <<"i","n","t","o">>, <<"c","o","m","p","l","i","a","n","c","e">>>>}
\* penalty_patterns['compliance_order'], each pattern as its word sequences
CompliancePhrases ==
  {<<v>> \o t \o c :
     v \in {<<"o","r","d","e","r">>, <<"o","r","d","e","r","e","d">>, <<"d","i","r","e","c","t">>, <<"d","i","r","e","c","t","e","d">>,
            <<"r","e","q","u","i","r","e">>, <<"r","e","q","u","i","r","e","d">>, <<"r","e","q","u","i","r","e","s">>},
     t \in OptWord(<<"t","o">>), c \in ComplyForms}
  \cup {<<<<"c","o","m","p","l","i","a","n","c","e">>, <<"o","r","d","e","r">>>>, <<<<"c","o","m","p","l","i","a","n","c","e">>, <<"d","i","r","e","c","t","i","v","e">>>>}
  \cup {<<v>> \o c : v \in {<<"m","u","s","t">>, <<"s","h","a","l","l">>}, c \in ComplyForms}
\* penalty_patterns['cease_desist']
CeaseDesistPhrases ==
  {<<<<"c","e","a","s","e">>, <<"a","n","d">>, <<"d","e","s","i","s","t">>>>}
  \cup {<<<<"s","t","o","p">>>> \o a \o <<c>> : a \in OptWord(<<"a","n","d">>), c \in {<<"c","e","a","s","e">>, <<"d","e","s","i","s","t">>}}
  \cup {<<<<"d","i","s","c","o","n","t","i","n","u","e">>>> \o t \o <<c>> :
          t \in OptWord(<<"t","h","e">>), c \in {<<"p","r","a","c","t","i","c","e">>, <<"a","c","t","i","v","i","t","y">>, <<"c","o","n","d","u","c","t">>}}

\* re.search of one of the patterns, re.IGNORECASE
SearchPhrases(text, phrases) ==
  \E i \in 1..Len(text) : \E ph \in phrases : PhraseEnd(text, i, ph) # 0

sComplianceIssued == <<"C","o","m","p","l","i","a","n","c","e"," ","o","r","d","e","r"," ","i","s","s","u","e","d">>
sCeaseDesistOrder == <<"C","e","a","s","e"," ","a","n","d"," ","d","e","s","i","s","t"," ","o","r","d","e","r">>
ComplianceOrders(text) ==
  IF SearchPhrases(text, CompliancePhrases) THEN <<sComplianceIssued>> ELSE <<>>
CeaseDesistOrders(text) ==
  IF SearchPhrases(text, CeaseDesistPhrases) THEN <<sCeaseDesistOrder>> ELSE <<>>

sMonetaryFine == <<"M","o","n","e","t","a","r","y"," ","f","i","n","e",":"," ">>

\* ([^.]+(?:\.[^.]+)*\.) from g, greedy: the end (exclusive), 0 for no match.
\* The group runs to the last period that no pair of adjacent periods
\* precedes.
OrderGroupEnd(s, g) ==
  IF g < 1 \/ g > Len(s) \/ s[g] = "." THEN 0
  ELSE The({IF ps = {} THEN 0
            ELSE 1 + CHOOSE p \in ps : \A q \in ps : q <= p :
              ps \in {{p \in (g + 1)..Len(s) :
                         /\ s[p] = "."
                         /\ \A k \in g..(p - 1) : ~(s[k] = "." /\ s[k + 1] = ".")}}})

\* ORDERS? at i: the end (exclusive), 0 for none
OrdersWordEnd(s, i) ==
  IF LitAt(s, <<"O","R","D","E","R","S">>, i, TRUE) THEN i + 6
  ELSE IF LitAt(s, <<"O","R","D","E","R">>, i, TRUE) THEN i + 5 ELSE 0

\* \s+(?:words ...)?  from e, the end of the keyword: the places the group can
\* start. The matcher tries them from the last to the first: behind the
\* optional part (followed by \s*:?\s* when colon, by \s+ otherwise), one
\* whitespace character less, without the optional part, one less again.
StartsAfter(s, e, words, colon) ==
  IF Spaces1(s, e) = 0 THEN {}
  ELSE UNION {{x \in {j, j - 1} : x > e}
              \cup UNION {IF f = 0 THEN {}
                          ELSE UNION {{x \in {c, c - 1} :
                                         x >= (IF colon THEN f ELSE f + 1)} :
                                        c \in {IF colon
                                               THEN SkipSpaces(s, OptChar(s, SkipSpaces(s, f), ":"))
                                               ELSE SkipSpaces(s, f)}} :
                            f \in {PhraseEnd(s, j, words)}} :
                j \in {Spaces1(s, e)}}

\* the places group(1) of order pattern number pat (lines 489-493) can start
\* for a match that begins at i
OrderStarts(pat, s, i) ==
  CASE pat = 1 ->
         UNION {StartsAfter(s, e, <<<<"T","H","A","T">>>>, FALSE) :
                  e \in {PhraseEnd(s, i, <<<<"I","T">>, <<"I","S">>>> \o h \o <<<<"O","R","D","E","R","E","D">>>>) :
                           h \in OptWord(<<"H","E","R","E","B","Y">>)} \ {0}}
    [] pat = 2 ->
         IF OrdersWordEnd(s, i) = 0 THEN {}
         ELSE UNION {IF a > Len(s) \/ s[a] # ":" THEN {}
                     ELSE {n + 1 : n \in {m \in (a + 1)..(SkipSpaces(s, a + 1) - 1) :
                                            s[m] = "\n"}} :
                       a \in {SkipSpaces(s, OrdersWordEnd(s, i))}}
    [] OTHER ->
         UNION {StartsAfter(s, e, <<<<"A","S">>, <<"F","O","L","L","O","W","S">>>>, TRUE) :
                  e \in {IF LitAt(s, <<"H","E","R","E","B","Y">>, i, TRUE) /\ Spaces1(s, i + 6) # 0
                         THEN OrdersWordEnd(s, Spaces1(s, i + 6))
                         ELSE OrdersWordEnd(s, i)} \ {0}}

\* where group(1) starts for the match of the pattern at i, 0 for no match
OrderGroupAt(pat, s, i) ==
  The({IF ok = {} THEN 0 ELSE CHOOSE g \in ok : \A h \in ok : h <= g :
         ok \in {{g \in OrderStarts(pat, s, i) : OrderGroupEnd(s, g) # 0}}})

OrderTextLen == 300
\* re.search(pattern, text, re.IGNORECASE | re.MULTILINE) and
\* match.group(1).strip()[:300]: a list of one order text, or the empty list
OrderSearch(pat, s) ==
  The({IF hits = {} THEN <<>>
       ELSE The({The({<<Slice(t, 1, IF Len(t) < OrderTextLen THEN Len(t)
                                   ELSE OrderTextLen)>> :
                        t \in {Strip(Slice(s, g, OrderGroupEnd(s, g) - 1))}}) :
                   g \in {OrderGroupAt(pat, s, Leftmost(hits))}}) :
         hits \in {{i \in 1..Len(s) : OrderGroupAt(pat, s, i) # 0}}})

\* case.orders after lines 495-499
Orders(text) == OrderSearch(1, text) \o OrderSearch(2, text) \o OrderSearch(3, text)

sDismiss == <<"d","i","s","m","i","s","s">>
\* a ruling of first fines, then dismissal
RulingFinesFirst(orders, penalties, monetaryFines, complianceOrders) ==
  IF Len(orders) > 0 \/ Len(penalties) > 0
  THEN IF Len(monetaryFines) > 0 \/ Len(complianceOrders) > 0
       THEN "favor_petitioner"
       ELSE IF \E n \in 1..Len(orders) : Contains(StrLower(orders[n]), sDismiss)
            THEN "favor_respondent"
            ELSE "mixed"
  ELSE "None"

\* case.ruling after lines 501-507; "None" is the default of the dataclass
\* (line 74), which the function leaves when there is nothing to go by
Ruling(orders, penalties, monetaryFines, complianceOrders) ==
  IF Len(orders) > 0 \/ Len(penalties) > 0
  THEN IF \E n \in 1..Len(orders) : Contains(StrLower(orders[n]), sDismiss)
       THEN "favor_respondent"
       ELSE IF Len(monetaryFines) > 0 \/ Len(complianceOrders) > 0
            THEN "favor_petitioner"
            ELSE "mixed"
  ELSE "None"

\* the outcome fields of the record: _extract_penalties_and_orders on
\* text_clean (line 258), _extract_outcomes on the text (line 261)
ExtractOutcomes(text) ==
  The({[orders |-> o, penalties |-> p[1] \o p[2] \o p[3],
        monetary_fines |-> p[4], compliance_orders |-> p[2],
        cease_desist_orders |-> p[3],
        ruling |-> Ruling(o, p[1] \o p[2] \o p[3], p[4], p[2])] :
         o \in {Orders(text)},
         p \in {The({<<[n \in 1..Len(m) |-> sMonetaryFine \o m[n]],
                       ComplianceOrders(c), CeaseDesistOrders(c), m>> :
                       m \in {MonetaryFines(c)}}) : c \in {CollapseWs(text)}}})

(***************************************************************************)
(* SpecOutcome: _extract_penalties_and_orders and _extract_outcomes on     *)
(* texts put together from passages of a decision                          *)
(***************************************************************************)
MaxPassages == 2

Passages ==
  {<<"I","T"," ","I","S"," ","H","E","R","E","B","Y"," ","O","R","D","E","R","E","D"," ","t","h","a","t"," ","t","h","e"," ","p","e","t","i","t","i","o","n"," ","i","s"," ","d","i","s","m","i","s","s","e","d",".","\n">>,
   <<"R","e","s","p","o","n","d","e","n","t"," ","s","h","a","l","l"," ","p","a","y"," ","a"," ","c","i","v","i","l"," ","p","e","n","a","l","t","y"," ","o","f"," ","$","1",",","5","0","0",".","0","0"," ","t","o"," ","t","h","e"," ","D","e","p","a","r","t","m","e","n","t",".","\n">>,
   <<"A"," ","$","2","5","0"," ","f","i","n","e"," ","w","a","s"," ","p","a","i","d","."," ">>,
   <<"R","e","s","p","o","n","d","e","n","t"," ","i","s"," ","o","r","d","e","r","e","d"," ","t","o"," ","c","o","m","p","l","y"," ","w","i","t","h"," ","t","h","e"," ","C","C","&","R","s",".","\n">>,
   <<"R","e","s","p","o","n","d","e","n","t"," ","s","h","a","l","l"," ","c","e","a","s","e"," ","a","n","d"," ","d","e","s","i","s","t",".","\n">>,
   <<"O","R","D","E","R",":","\n","T","h","e"," ","h","e","a","r","i","n","g"," ","i","s"," ","c","o","n","t","i","n","u","e","d",".","\n">>,
   <<"T","h","e"," ","h","e","a","r","i","n","g"," ","w","a","s"," ","h","e","l","d"," ","o","n"," ","t","h","e"," ","m","e","r","i","t","s","\n">>,
   <<"I","T"," ","I","S"," ","O","R","D","E","R","E","D"," ","t","h","a","t"," ">> \o [n \in 1..OrderTextLen |-> "x"]
     \o <<" ","a","n","d"," ","t","h","e"," ","p","e","t","i","t","i","o","n"," ","i","s"," ","d","i","s","m","i","s","s","e","d",".","\n">>}

RECURSIVE JoinPassages(_)
JoinPassages(ps) == IF Len(ps) = 0 THEN <<>> ELSE ps[1] \o JoinPassages(Tail(ps))

OutcomeTexts ==
  {JoinPassages(ps) : ps \in UNION {[1..n -> Passages] : n \in 0..MaxPassages}}

InitOutcome ==
  /\ NoStore
  /\ xin \in OutcomeTexts
  /\ xout = Pending

\* the two field groups run on the text of the document
ExtractOutcome ==
  /\ xout = Pending
  /\ xout' = ExtractOutcomes(xin)
  /\ UNCHANGED <<coll, index, lastOp, result, xin, citation_cache>>

NextOutcome == ExtractOutcome

SpecOutcome == InitOutcome /\ [][NextOutcome]_vars

OutcomeDone == xout # Pending

\* the entries of case.penalties of a kind: those that begin with a label
PenaltyOfKind(label) ==
  \E n \in 1..Len(xout.penalties) : OccursAt(xout.penalties[n], label, 1)

\* C11: the ruling is a function of the extracted orders and penalties only:
\* favor_respondent if any extracted order text contains a dismissal keyword
\* (also when fines or compliance orders were extracted as well), else
\* favor_petitioner if a monetary fine or a compliance order was extracted,
\* else mixed if any order or penalty was extracted, and unknown (no ruling
\* is set) if there are no orders and no penalties.
C11_RulingRule ==
  OutcomeDone =>
    xout.ruling =
      IF \E n \in 1..Len(xout.orders) : Contains(StrLower(xout.orders[n]), sDismiss)
      THEN "favor_respondent"
      ELSE IF PenaltyOfKind(sMonetaryFine) \/ PenaltyOfKind(sComplianceIssued)
      THEN "favor_petitioner"
      ELSE IF xout.orders # <<>> \/ xout.penalties # <<>>
      THEN "mixed"
      ELSE "None"

\* a dismissal is ordered and a fine is extracted from the same text
C11_Witness ==
  /\ OutcomeDone
  /\ xout.ruling = "favor_respondent"
  /\ PenaltyOfKind(sMonetaryFine)

(***************************************************************************)
(* CitationResolver (citation_resolver.py) over MetadataIndex.search       *)
(* (legal_metadata.py)                                                     *)
(***************************************************************************)
\* what resolve_citation returns for "not found" (None), in the shape of a
\* stored chunk
NoDocument == [page_content |-> <<>>, sha256 |-> "None"]

\* str(list) of a list of str
RECURSIVE StrOfItems(_)
StrOfItems(list) ==
  IF Len(list) = 0 THEN <<>>
  ELSE <<"'">> \o list[1] \o <<"'">>
       \o (IF Len(list) > 1 THEN <<",", " ">> ELSE <<>>) \o StrOfItems(Tail(list))
StrOfList(list) == <<"[">> \o StrOfItems(list) \o <<"]">>

\* the test of MetadataIndex.search (lines 255-266) on one record for the
\* criteria statutes_cited=[c], cases_cited=[c], regulations_cited=[c]: every
\* criterion has to hold, each being 'c in str(list)'
CriteriaMatch(rec, citation) ==
  /\ Contains(StrOfList(rec.statutes_cited), citation)
  /\ Contains(StrOfList(rec.cases_cited), citation)
  /\ Contains(StrOfList(rec.regulations_cited), citation)

\* results.sort(key=lambda x: x.authority_weight, reverse=True): stable
RECURSIVE SortByAuthority(_)
SortByAuthority(results) ==
  IF Len(results) = 0 THEN <<>>
  ELSE The({<<results[n]>>
              \o SortByAuthority(Slice(results, 1, n - 1)
                                   \o Slice(results, n + 1, Len(results))) :
              n \in {Leftmost({m \in 1..Len(results) :
                                 \A o \in 1..Len(results) :
                                   results[o].authority_weight
                                     <= results[m].authority_weight})}})

\* MetadataIndex.search: ix is self.index.values(), in insertion order
RECURSIVE MatchingRecords(_, _)
MatchingRecords(ix, citation) ==
  IF Len(ix) = 0 THEN <<>>
  ELSE (IF CriteriaMatch(ix[1], citation) THEN <<ix[1]>> ELSE <<>>)
       \o MatchingRecords(Tail(ix), citation)
MetadataSearch(ix, citation) == SortByAuthority(MatchingRecords(ix, citation))

\* db.get(where={"sha256": digest}): the chunks of the document
RECURSIVE ChunksWithDigest(_, _)
ChunksWithDigest(c, digest) ==
  IF Len(c) = 0 THEN <<>>
  ELSE (IF c[1].sha256 = digest THEN <<c[1]>> ELSE <<>>)
       \o ChunksWithDigest(Tail(c), digest)

\* a fallback that takes the top result as it comes
TextSearchUnchecked(citation, top) == IF Len(top) > 0 THEN top[1] ELSE NoDocument

\* _text_search_citation: top is what similarity_search(citation, k=1) gave
TextSearchCitation(citation, top) ==
  IF Len(top) > 0
     /\ Contains(StrLower(top[1].page_content), StrLower(citation))
  THEN top[1]
  ELSE NoDocument

\* _search_project_for_citation on a project whose directory exists, as
\* [doc, via]: ix and c are its metadata index and its collection
SearchProjectForCitation(citation, ix, c, top) ==
  The({IF Len(results) > 0 /\ Len(ChunksWithDigest(c, results[1].sha256)) > 0
       THEN [doc |-> ChunksWithDigest(c, results[1].sha256)[1], via |-> "exact"]
       ELSE [doc |-> TextSearchCitation(citation, top), via |-> "fallback"] :
         results \in {MetadataSearch(ix, citation)}})

\* the loop of resolve_citation (lines 52-56) over the projects left, as
\* [doc, via, searched, looked]: searched lists the projects that were looked
\* into, looked what similarity_search gave where the fallback ran
RECURSIVE SearchProjects(_, _, _, _, _)
SearchProjects(citation, projects, ixs, stores, tops) ==
  IF Len(projects) = 0
  THEN [doc |-> NoDocument, via |-> "none", searched |-> <<>>, looked |-> <<>>]
  ELSE IF projects[1] \notin DOMAIN stores
  THEN SearchProjects(citation, Tail(projects), ixs, stores, tops)
  ELSE The({IF found.doc # NoDocument
            THEN [doc |-> found.doc, via |-> found.via, searched |-> <<projects[1]>>,
                  looked |-> IF found.via = "fallback"
                             THEN <<tops[projects[1]]>> ELSE <<>>]
            ELSE The({[doc |-> rest.doc, via |-> rest.via,
                       searched |-> <<projects[1]>> \o rest.searched,
                       looked |-> <<tops[projects[1]]>> \o rest.looked] :
                        rest \in {SearchProjects(citation, Tail(projects), ixs,
                                                 stores, tops)}}) :
              found \in {SearchProjectForCitation(citation, ixs[projects[1]],
                                                  stores[projects[1]],
                                                  tops[projects[1]])}})

citeX == <<"A",".","R",".","S","."," ","SECT"," ","3","2","-","2","1","5","3">>
citeXDash == <<"A",".","R",".","S","."," ","SECT"," ","3","2","NDASH","2","1","5","3">>
\* the documents as ingest.py stores them: the metadata record of the index
\* (lines 110-131) and the chunk of the collection (lines 133-170)
ResolverDocs ==
  {[sha256 |-> "s1", statutes_cited |-> <<citeX>>, cases_cited |-> <<>>,
    regulations_cited |-> <<>>, authority_weight |-> 10,
    text |-> <<"a",".","r",".","s","."," ","SECT"," ","3","2","-","2","1","5","3"," ","p","r","o","v","i","d","e","s">>],
   [sha256 |-> "s2", statutes_cited |-> <<citeX>>, cases_cited |-> <<citeX>>,
    regulations_cited |-> <<citeX>>, authority_weight |-> 6,
    text |-> <<"v","i","o","l","a","t","e","d"," ","A",".","R",".","S","."," ","SECT"," ","3","2","-","2","1","5","3">>],
   [sha256 |-> "s3", statutes_cited |-> <<citeX>>, cases_cited |-> <<citeX>>,
    regulations_cited |-> <<citeX>>, authority_weight |-> 8,
    text |-> <<"t","h","e"," ","o","r","d","e","r"," ","i","s"," ","f","i","n","a","l">>],
   [sha256 |-> "s4", statutes_cited |-> <<citeXDash>>, cases_cited |-> <<>>,
    regulations_cited |-> <<>>, authority_weight |-> 5,
    text |-> <<"c","i","t","e","s"," ","A",".","R",".","S","."," ","SECT"," ","3","2","NDASH","2","1","5","3",","," ","A",".","R",".","S","."," ","SECT"," ","3","2","-","2","1">>]}

ResolverQueries ==
  {citeX,
   <<"A",".","R",".","S","."," "," ","SECT"," ","3","2","-","2","1","5","3",".">>,
   <<"A",".","R",".","S","."," ","SECT"," ","3","2","-","2","1">>}

\* normalize_citation on every citation string of the model, computed once
CitationStrings ==
  ResolverQueries
  \cup UNION {{list[n] : n \in 1..Len(list)} :
               list \in {d.statutes_cited \o d.cases_cited \o d.regulations_cited :
                           d \in ResolverDocs}}
Normalized == [c \in CitationStrings |-> NormalizeCitation(c)]

\* a resolver that never answers from its cache
CachedNever(cache, normalized) == FALSE

\* 'if normalized in self.citation_cache' answers from positive entries only
CachedIfFound(cache, normalized) ==
  normalized \in DOMAIN cache /\ cache[normalized] # NoDocument

\* 'if normalized in self.citation_cache' (line 48)
Cached(cache, normalized) == normalized \in DOMAIN cache

\* self.citation_cache[normalized] = doc
CacheStore(cache, normalized, doc) ==
  [key \in DOMAIN cache \cup {normalized} |->
     IF key = normalized THEN doc ELSE cache[key]]

\* resolve_citation(citation, projects); tops is what similarity_search gives
\* on each collection if it is asked
ResolveCitation(citation, projects, tops) ==
  \E normalized \in {Normalized[citation]} :
    IF Cached(citation_cache, normalized)
    THEN /\ result' = <<citation_cache[normalized]>>
         /\ lastOp' = [op |-> "resolve_citation", citation |-> citation,
                       projects |-> projects, via |-> "cache", searched |-> <<>>,
                       looked |-> <<>>]
         /\ UNCHANGED <<coll, index, xin, xout, citation_cache>>
    ELSE \E out \in {SearchProjects(normalized, projects, index, coll, tops)} :
         /\ result' = <<out.doc>>
         /\ citation_cache' = CacheStore(citation_cache, normalized, out.doc)
         /\ lastOp' = [op |-> "resolve_citation", citation |-> citation,
                       projects |-> projects, via |-> out.via,
                       searched |-> out.searched, looked |-> out.looked]
         /\ UNCHANGED <<coll, index, xin, xout>>

\* 'if self.normalize_citation(doc_citation) == normalized' for some citation
\* of the record (lines 173-180)
CitesNormalized(rec, normalized) ==
  \E list \in {rec.statutes_cited \o rec.cases_cited \o rec.regulations_cited} :
    \E n \in 1..Len(list) : Normalized[list[n]] = normalized

\* the (project, document) pairs find_citing_documents collects in a project
RECURSIVE CitingInProject(_, _, _, _)
CitingInProject(p, ix, c, normalized) ==
  IF Len(ix) = 0 THEN <<>>
  ELSE (IF CitesNormalized(ix[1], normalized)
           /\ Len(ChunksWithDigest(c, ix[1].sha256)) > 0
        THEN <<[project |-> p, doc |-> ChunksWithDigest(c, ix[1].sha256)[1]]>>
        ELSE <<>>)
       \o CitingInProject(p, Tail(ix), c, normalized)

RECURSIVE CitingDocs(_, _, _, _)
CitingDocs(projects, ixs, stores, normalized) ==
  IF Len(projects) = 0 THEN <<>>
  ELSE (IF projects[1] \notin DOMAIN stores THEN <<>>
        ELSE CitingInProject(projects[1], ixs[projects[1]], stores[projects[1]],
                             normalized))
       \o CitingDocs(Tail(projects), ixs, stores, normalized)

\* find_citing_documents(citation, projects)
FindCitingDocuments(citation, projects) ==
  /\ result' = CitingDocs(projects, index, coll, Normalized[citation])
  /\ lastOp' = [op |-> "find_citing_documents", citation |-> citation,
                projects |-> projects, via |-> "scan", searched |-> <<>>,
                looked |-> <<>>]
  /\ UNCHANGED <<coll, index, xin, xout, citation_cache>>

(***************************************************************************)
(* SpecResolve: one resolver instance over two projects into which         *)
(* documents are ingested                                                  *)
(***************************************************************************)
\* the lists of projects a caller passes: "pX" has no index directory
ProjectLists == {ProjectSeq, <<"pX", ProjectSeq[2], ProjectSeq[1]>>}

MaxResolverDocs == 2

InitResolve ==
  /\ coll = [p \in Projects |-> <<>>]
  /\ index = [p \in Projects |-> <<>>]
  /\ lastOp = [op |-> "none", citation |-> <<>>, projects |-> <<>>,
               via |-> "none", searched |-> <<>>, looked |-> <<>>]
  /\ result = <<>>
  /\ xin = <<>>
  /\ xout = Pending
  /\ citation_cache = <<>>

\* ingest of one document into project p: skipped when its digest is in the
\* collection (ingest.py lines 95-97), else the record goes to the index
\* and the chunk to the collection
StoreDocument ==
  \E d \in ResolverDocs, p \in Projects :
    /\ Len(coll[ProjectSeq[1]]) + Len(coll[ProjectSeq[2]]) < MaxResolverDocs
    /\ \A n \in 1..Len(coll[p]) : coll[p][n].sha256 # d.sha256
    /\ coll' = [coll EXCEPT ![p] = Append(@, [page_content |-> d.text,
                                              sha256 |-> d.sha256])]
    /\ index' = [index EXCEPT ![p] =
                   Append(@, [sha256 |-> d.sha256,
                              statutes_cited |-> d.statutes_cited,
                              cases_cited |-> d.cases_cited,
                              regulations_cited |-> d.regulations_cited,
                              authority_weight |-> d.authority_weight])]
    /\ UNCHANGED <<lastOp, result, xin, xout, citation_cache>>

Resolve ==
  \E citation \in ResolverQueries, projects \in ProjectLists :
    \E tops \in SimilarityAnswers(coll, 1) :
      ResolveCitation(citation, projects, tops)

FindCiting ==
  \E citation \in ResolverQueries, projects \in ProjectLists :
    FindCitingDocuments(citation, projects)

NextResolve == StoreDocument \/ Resolve \/ FindCiting

SpecResolve == InitResolve /\ [][NextResolve]_vars

(***************************************************************************)
(* Claims on the resolver                                                  *)
(***************************************************************************)
\* this step is a call of resolve_citation
ResolveStep == lastOp' # lastOp /\ lastOp'.op = "resolve_citation"

\* C12: once resolve_citation has returned not-found for a citation, every
\* later call on the same instance for a citation with the same normalized
\* form returns not-found without searching any project (no metadata lookup,
\* no similarity search), and a cache entry, once written, is never removed
\* or changed.
C12_NegativeCaching ==
  [][/\ \A key \in DOMAIN citation_cache :
          key \in DOMAIN citation_cache' /\ citation_cache'[key] = citation_cache[key]
     /\ (/\ ResolveStep
         /\ Normalized[lastOp'.citation] \in DOMAIN citation_cache
         /\ citation_cache[Normalized[lastOp'.citation]] = NoDocument)
        => (/\ result' = <<NoDocument>>
            /\ lastOp'.searched = <<>>
            /\ lastOp'.via = "cache")]_vars

\* not-found is answered from the cache while a collection holds a document
\* with the citation in its text
C12_Witness ==
  /\ lastOp.op = "resolve_citation"
  /\ lastOp.via = "cache"
  /\ result = <<NoDocument>>
  /\ \E p \in Projects : \E n \in 1..Len(coll[p]) :
       Contains(StrLower(coll[p][n].page_content),
                StrLower(Normalized[lastOp.citation]))

\* the records of the candidate sources that list a citation with that
\* normalized form
ListingRecords(projects, normalized) ==
  UNION {{index[p][n] : n \in {m \in 1..Len(index[p]) :
                                 CitesNormalized(index[p][m], normalized)}} :
           p \in {projects[n] : n \in 1..Len(projects)} \cap Projects}

\* this step is a call of resolve_citation that was not answered from the cache
SearchStep == ResolveStep /\ lastOp'.via # "cache"

Unified ==
  [c \in CitationStrings |->
     NormalizeCitation([i \in 1..Len(c) |->
                          IF c[i] \in {"NDASH", "MDASH"} THEN "-" ELSE c[i]])]

\* the digests of the records of the sources that list a citation equal to
\* the queried one in normalized form
SameCitationDigests(projects, citation) ==
  UNION {{index[p][n].sha256 :
            n \in {m \in 1..Len(index[p]) :
                     \E list \in {index[p][m].statutes_cited
                                    \o index[p][m].cases_cited
                                    \o index[p][m].regulations_cited} :
                       \E k \in 1..Len(list) : Unified[list[k]] = Unified[citation]}} :
           p \in {projects[n] : n \in 1..Len(projects)} \cap Projects}

\* C14: in the exact-match step of resolve_citation and in
\* find_citing_documents a stored citation matches the queried one if and
\* only if their normalized forms are equal: a stored citation of which the
\* query is only a prefix or substring does not match, and citations that
\* differ only in whitespace, dash or symbol variant or trailing period do.
\* The exact-match step of a source answers exactly when the source has a
\* matching record, and find_citing_documents returns exactly the documents
\* of the matching records.
C14_MatchIffNormalizedEqual ==
  [][/\ (lastOp' # lastOp /\ lastOp'.op = "find_citing_documents")
          => {result'[n].doc.sha256 : n \in 1..Len(result')}
               = SameCitationDigests(lastOp'.projects, lastOp'.citation)
     /\ SearchStep
          => \A n \in 1..Len(lastOp'.searched) :
               /\ (SameCitationDigests(<<lastOp'.searched[n]>>, lastOp'.citation) # {})
                    <=> (n = Len(lastOp'.searched) /\ lastOp'.via = "exact")
               /\ (n = Len(lastOp'.searched) /\ lastOp'.via = "exact")
                    => result'[1].sha256
                         \in SameCitationDigests(<<lastOp'.searched[n]>>,
                                                 lastOp'.citation)]_vars

\* 'citation.lower() in page_content.lower()'
AppearsLowered(citation, doc) ==
  Contains(StrLower(doc.page_content), StrLower(citation))

\* C15 as stated: every document that resolve_citation returns through the
\* similarity-search fallback contains the normalized citation as a
\* substring of its text.
C15_FallbackContains ==
  [][(SearchStep /\ lastOp'.via = "fallback")
     => Contains(result'[1].page_content, Normalized[lastOp'.citation])]_vars

\* C15, amended: every document that resolve_citation returns through the
\* similarity-search fallback contains the normalized citation as a
\* substring of its text when both are put in lower case, and it is the top
\* similarity result of its source; a source whose top similarity result
\* does not contain it in that sense gives not-found: the document returned
\* is never one that was refused.
C15_FallbackContainsLowered ==
  [][SearchStep
     => /\ lastOp'.via = "fallback"
             => /\ result' = lastOp'.looked[Len(lastOp'.looked)]
                /\ AppearsLowered(Normalized[lastOp'.citation], result'[1])
        /\ \A n \in 1..Len(lastOp'.looked) :
             (\A m \in 1..Len(lastOp'.looked[n]) :
                ~AppearsLowered(Normalized[lastOp'.citation], lastOp'.looked[n][m]))
             => ~(n = Len(lastOp'.looked) /\ lastOp'.via = "fallback")]_vars

\* the fallback has refused the top result of one source and returned that
\* of the next, which has the citation in another case
C15_Witness ==
  /\ lastOp.op = "resolve_citation"
  /\ lastOp.via = "fallback"
  /\ Len(lastOp.looked) = 2
  /\ Len(lastOp.looked[1]) = 1
  /\ ~Contains(result[1].page_content, Normalized[lastOp.citation])

(***************************************************************************)
(* Claims on the routing of get_relevant_documents                         *)
(***************************************************************************)
\* C16: get_relevant_documents chooses its path by detection order and the
\* paths are mutually exclusive: the entity-name similarity search is issued
\* only for queries in which no case-number token is detected; a query in
\* which one is detected never triggers the entity-name search.
C16_NameSearchOnlyWithoutCaseNumber ==
  (lastOp.op = "query" /\ lastOp.name_search) => lastOp.case_number = None


\* C17: the fallback semantic path, for every k >= 1 and every n >= 1 active
\* collections, asks each active collection for max(1, k div n) results,
\* concatenates the results in collection order, and returns at most k
\* chunks in total.
C17_SemanticFallback ==
  (Retrieved /\ lastOp.path = "semantic" /\ lastOp.active # {}) =>
    /\ lastOp.project_k =
         (IF lastOp.k \div Cardinality(lastOp.active) >= 1
          THEN lastOp.k \div Cardinality(lastOp.active) ELSE 1)
    /\ Len(result) <= lastOp.k
    /\ \E m \in 0..Len(result) :
         /\ \A i \in 1..m :
              \E n \in 1..Len(coll[ProjectSeq[1]]) :
                result[i] = coll[ProjectSeq[1]][n]
         /\ \A i \in (m + 1)..Len(result) :
              \E n \in 1..Len(coll[ProjectSeq[2]]) :
                result[i] = coll[ProjectSeq[2]][n]


\* the matches of the detected case number in a collection, and whether
\* sorting them can be done
CaseMatches(p) ==
  {n \in 1..Len(coll[p]) : MatchesCase(lastOp.case_number, coll[p][n])}
Sortable(p) ==
  \A i \in CaseMatches(p) : \A j \in CaseMatches(p) :
    SortKey(coll[p][i]).kind = SortKey(coll[p][j]).kind

\* what a collection can add to a similarity search of project_k results
Contribution(p) ==
  IF p \notin lastOp.reached THEN 0
  ELSE IF lastOp.project_k < Len(coll[p]) THEN lastOp.project_k
  ELSE Len(coll[p])

\* C18: if a requested collection cannot be opened, or a search on it
\* raises, that collection is skipped and the remaining collections are
\* still searched: on every path get_relevant_documents returns the chunks
\* the reachable collections contribute and does not raise.  Every returned
\* chunk is a chunk of a reachable collection; a reachable collection with
\* sortable matches of the case number makes the call answer with matches;
\* on the two similarity paths the call returns as many chunks as the
\* reachable collections give together, up to k.
C18_PartialResults ==
  lastOp.op = "query" =>
    /\ \A i \in 1..Len(result) :
         \E p \in lastOp.reached : \E n \in 1..Len(coll[p]) :
           result[i] = coll[p][n]
    /\ ( /\ lastOp.case_number # None
         /\ \E p \in lastOp.reached : CaseMatches(p) # {} /\ Sortable(p) )
       => /\ lastOp.path = "metadata"
          /\ Len(result) > 0
          /\ \A i \in 1..Len(result) :
               MatchesCase(lastOp.case_number, result[i])
    /\ lastOp.path \in {"attorney", "semantic"} =>
         Len(result) =
           (IF lastOp.k < Contribution(ProjectSeq[1]) + Contribution(ProjectSeq[2])
            THEN lastOp.k
            ELSE Contribution(ProjectSeq[1]) + Contribution(ProjectSeq[2]))

\* a collection raised during the search and the call still returned chunks
C18_Witness ==
  /\ lastOp.op = "query"
  /\ lastOp.reached # lastOp.active
  /\ Len(result) > 0


(***************************************************************************)
(* query.py: build_legal_aware_retriever, the weights of the collections   *)
(***************************************************************************)
\* The four weights 0.4, 0.3, 0.25 and 0.05, in hundredths; a normalized
\* weight w / total_weight is kept as the fraction [num |-> w, den |-> total].
StatuteWeight == 40
RegulationWeight == 30
AdministrativeWeight == 25
OtherWeight == 5

\* "word" in project.lower()
InLowered(project, word) == Contains(StrLower(project), word)

\* the if/elif chain over the lowered name, without project.lower()
ProjectWeightAsWritten(project) ==
  IF Contains(project, <<"s","t","a","t","u","t","e">>) THEN StatuteWeight
  ELSE IF Contains(project, <<"r","e","g","u","l","a","t","i","o","n">>) \/ Contains(project, <<"a","a","c">>)
  THEN RegulationWeight
  ELSE IF Contains(project, <<"a","d","r","e">>) \/ Contains(project, <<"o","a","h">>)
  THEN AdministrativeWeight
  ELSE OtherWeight

\* the weight appended for one project
ProjectWeight(project) ==
  IF InLowered(project, <<"s","t","a","t","u","t","e">>) THEN StatuteWeight
  ELSE IF InLowered(project, <<"r","e","g","u","l","a","t","i","o","n">>) \/ InLowered(project, <<"a","a","c">>)
  THEN RegulationWeight
  ELSE IF InLowered(project, <<"a","d","r","e">>) \/ InLowered(project, <<"o","a","h">>)
  THEN AdministrativeWeight
  ELSE OtherWeight

\* sum(weights)
RECURSIVE TotalWeight(_)
TotalWeight(weights) ==
  IF Len(weights) = 0 THEN 0 ELSE weights[1] + TotalWeight(Tail(weights))

\* weights = [w / total_weight for w in weights]
NormalizeWeights(weights) ==
  [i \in 1..Len(weights) |-> [num |-> weights[i], den |-> TotalWeight(weights)]]

\* the weights build_legal_aware_retriever computes for a list of projects
LegalWeights(projects) ==
  NormalizeWeights([i \in 1..Len(projects) |-> ProjectWeight(projects[i])])

MaxListed == 3
CollectionNames ==
  { <<"s","t","a","t","u","t","e","s">>, <<"A","R","S","_","S","t","a","t","u","t","e","s">>, <<"R","e","g","u","l","a","t","i","o","n","s">>, <<"a","a","c">>, <<"a","d","r","e","_","c","a","s","e","s">>,
    <<"O","A","H">>, <<"m","i","s","c">>, <<"a","d","r","e","_","s","t","a","t","u","t","e","s">> }
ProjectListings ==
  UNION {[1..n -> CollectionNames] : n \in 1..MaxListed}

InitWeights ==
  /\ NoStore
  /\ xin \in ProjectListings
  /\ xout = Pending

BuildLegalAwareRetriever ==
  /\ xout = Pending
  /\ xout' = [weights |-> LegalWeights(xin)]
  /\ UNCHANGED <<coll, index, lastOp, result, xin, citation_cache>>

NextWeights == BuildLegalAwareRetriever

SpecWeights == InitWeights /\ [][NextWeights]_vars

\* the class of a collection name: the most authoritative kind it mentions
IsStatuteType(name) == InLowered(name, <<"s","t","a","t","u","t","e">>)
IsRegulationType(name) ==
  /\ ~IsStatuteType(name)
  /\ InLowered(name, <<"r","e","g","u","l","a","t","i","o","n">>) \/ InLowered(name, <<"a","a","c">>)
IsAgencyType(name) ==
  /\ ~IsStatuteType(name)
  /\ ~IsRegulationType(name)
  /\ InLowered(name, <<"a","d","r","e">>) \/ InLowered(name, <<"o","a","h">>)
IsOtherType(name) ==
  ~IsStatuteType(name) /\ ~IsRegulationType(name) /\ ~IsAgencyType(name)

\* a > b on two fractions with positive denominators
Outweighs(a, b) == a.num * b.den > b.num * a.den

\* the sum of the numerators of fractions over one denominator
RECURSIVE Numerators(_)
Numerators(ws) == IF Len(ws) = 0 THEN 0 ELSE ws[1].num + Numerators(Tail(ws))

\* C19: in build_legal_aware_retriever, for every non-empty list of
\* collection names, the computed weights are all positive, sum to 1, and
\* follow the authority hierarchy: for two collections of different classes
\* in the same list, weight(statute-type) > weight(regulation-type) >
\* weight(administrative/agency-type) > weight(any other).
C19_WeightsHierarchy ==
  xout # Pending =>
    /\ Len(xout.weights) = Len(xin)
    /\ \A i \in 1..Len(xout.weights) : xout.weights[i].num > 0 /\ xout.weights[i].den > 0
    /\ \A i \in 1..Len(xout.weights) : xout.weights[i].den = xout.weights[1].den
    /\ Numerators(xout.weights) = xout.weights[1].den
    /\ \A i \in 1..Len(xin) : \A j \in 1..Len(xin) :
         /\ (IsStatuteType(xin[i]) /\ ~IsStatuteType(xin[j]))
              => Outweighs(xout.weights[i], xout.weights[j])
         /\ (IsRegulationType(xin[i]) /\ (IsAgencyType(xin[j]) \/ IsOtherType(xin[j])))
              => Outweighs(xout.weights[i], xout.weights[j])
         /\ (IsAgencyType(xin[i]) /\ IsOtherType(xin[j]))
              => Outweighs(xout.weights[i], xout.weights[j])

\* a list with a regulation-type name written in capitals next to an agency
\* collection and one of no known kind has got its weights
C19_Witness ==
  /\ xout # Pending
  /\ \E i \in 1..Len(xin) : \E j \in 1..Len(xin) : \E h \in 1..Len(xin) :
       /\ xin[i] = <<"R","e","g","u","l","a","t","i","o","n","s">>
       /\ IsAgencyType(xin[j])
       /\ IsOtherType(xin[h])


(***************************************************************************)
(* enhanced_ingest.py: the priority tier of one chunk                      *)
(***************************************************************************)
\* chunk_metadata["chunk_priority"] after the loop body has run on a chunk:
\* the key is set only 'if comprehensive_case'
ChunkPriorityEntry(chunk, comprehensive) ==
  IF comprehensive THEN PrioStr(ChunkPriority(chunk)) ELSE PrioAbsent

MaxTerms == 2
ChunkWords ==
  { <<"O","R","D","E","R">>, <<"r","e","o","r","d","e","r","e","d">>, <<"F","i","n","d","i","n","g","s">>, <<"a","t","t","o","r","n","e","y">>, <<"E","s","q",".">>, <<"J","u","d","g","e">>,
    <<"h","e","a","r","i","n","g">>, <<"f","e","e">>, <<"t","h","e">> }

ChunkTexts ==
  {JoinWords(ws) : ws \in UNION {[1..n -> ChunkWords] : n \in 1..MaxTerms}}

InitTier ==
  /\ NoStore
  /\ xin \in [chunk : ChunkTexts, comprehensive : BOOLEAN]
  /\ xout = Pending

AssignTier ==
  /\ xout = Pending
  /\ xout' = [chunk_priority |->
                ChunkPriorityEntry(xin.chunk, xin.comprehensive)]
  /\ UNCHANGED <<coll, index, lastOp, result, xin, citation_cache>>

NextTier == AssignTier

SpecTier == InitTier /\ [][NextTier]_vars

\* the lowered text of the chunk mentions one of the words
Mentions(words) ==
  \E w \in words : \E i \in 1..Len(xin.chunk) :
    /\ i + Len(w) - 1 <= Len(xin.chunk)
    /\ \A j \in 1..Len(w) : ToLowerC(xin.chunk[i + j - 1]) = w[j]

C21_ChunkMetadataComplete ==
  /\ \A p \in Projects : \A n \in 1..Len(coll[p]) :
       {"source", "document_type", "authority_weight", "is_primary_authority"}
         \subseteq coll[p][n].keys
  /\ \A i \in 1..Len(result) :
       {"source", "document_type", "authority_weight", "is_primary_authority"}
         \subseteq result[i].keys

(***************************************************************************)
(* Ingestion of a directory that holds a file twice                        *)
(***************************************************************************)
\* the directory: a file, a second file with the same bytes under another
\* name, and a file without text
fileRhgCopy ==
  [name |-> <<"r","e","h","e","a","r","i","n","g"," ","(","1",")",".","d","o","c","x">>, sha256 |-> fileRhg.sha256,
   texts |-> fileRhg.texts]
DirFiles == {fileRhg, fileRhgCopy, fileScan}
DirRuns ==
  {fs \in UNION {[1..n -> DirFiles] : n \in 1..MaxRunFiles} :
     \A i \in 1..Len(fs) : \A j \in 1..Len(fs) : i # j => fs[i] # fs[j]}
DirProcessed ==
  [f \in DirFiles |-> The({ProcessedAs(f, fullText) : fullText \in {FullText(f)}})]

\* ingest(pdf_dir, project=p, enable_legal_processing=legal) of ingest.py
IngestDir ==
  /\ Idle
  /\ \E fs \in DirRuns, p \in Projects, legal \in BOOLEAN :
       \E processed \in {DirProcessed} : IngestRun(fs, p, legal, processed)

\* one call of ingest_document_comprehensive, which
\* ingest_directory_comprehensive makes for each file of the directory
IngestDirFile ==
  /\ Idle
  /\ \E f \in DirFiles, p \in Projects, comp \in BOOLEAN, legal \in BOOLEAN,
        fault \in IngestFaults :
       \E processed \in {DirProcessed[f]} :
         IngestDocument(f, p, comp, legal, fault, processed)

NextDir == IngestDir \/ IngestDirFile \/ Return

SpecDir == Init /\ [][NextDir]_vars

\* C23: within one ingestion run over a directory that holds two files with
\* byte-identical content (same SHA-256, different names), the content is
\* processed once: the second file is skipped, and at the end of the run
\* the store holds the chunks and the metadata record of only one
\* processing of that hash.
C23_IdenticalContentOnce ==
  \A p \in Projects :
    /\ \A i \in 1..Len(coll[p]) : \A j \in 1..Len(coll[p]) :
         coll[p][i].sha256 = coll[p][j].sha256
           => coll[p][i].source = coll[p][j].source
    /\ \A r1 \in index[p] : \A r2 \in index[p] :
         r1.sha256 = r2.sha256 => r1 = r2

(***************************************************************************)
(* comprehensive_processor.py: _extract_hoa_violations                     *)
(***************************************************************************)

\* a word with an optional s behind it, under re.IGNORECASE, at i: the
\* position after it, 0 when the word is not there
WordS(s, i, w) ==
  IF LitAt(s, w, i, TRUE) THEN OptLetter(s, i + Len(w), "s") ELSE 0

\* w1\s+(?:a|b|...)s? at i: the position after it, 0 for no match
WordThenOneOf(s, i, w1, seconds) ==
  IF ~LitAt(s, w1, i, TRUE) \/ Spaces1(s, i + Len(w1)) = 0 THEN 0
  ELSE The({IF \E w \in seconds : LitAt(s, w, j, TRUE)
            THEN WordS(s, j, CHOOSE w \in seconds : LitAt(s, w, j, TRUE))
            ELSE 0 :
              j \in {Spaces1(s, i + Len(w1))}})

\* (?:Covenants?,?\s*)?Conditions?,?\s*(?:and\s+)?Restrictions? at i
CcrLongEnd(s, i) ==
  The({IF WordS(s, j, <<"C","o","n","d","i","t","i","o","n">>) = 0 THEN 0
       ELSE WordS(s, OptWordSp(s, <<"a","n","d">>,
                               SkipSpaces(s, OptChar(s, WordS(s, j, <<"C","o","n","d","i","t","i","o","n">>), ","))),
                  <<"R","e","s","t","r","i","c","t","i","o","n">>) :
         j \in {IF WordS(s, i, <<"C","o","v","e","n","a","n","t">>) = 0 THEN i
                ELSE SkipSpaces(s, OptChar(s, WordS(s, i, <<"C","o","v","e","n","a","n","t">>), ","))}})

GuidelineWords == {<<"G","u","i","d","e","l","i","n","e">>, <<"S","t","a","n","d","a","r","d">>, <<"R","e","q","u","i","r","e","m","e","n","t">>}

\* hoa_violation_patterns: the document types in the order of the dict, and
\* the number of patterns of each
HoaDocTypes == <<"ccr", "bylaws", "declaration", "architectural", "governing_doc">>
HoaPatterns ==
  << <<"ccr", 1>>, <<"ccr", 2>>, <<"ccr", 3>>, <<"bylaws", 1>>, <<"bylaws", 2>>,
     <<"declaration", 1>>, <<"declaration", 2>>, <<"architectural", 1>>,
     <<"architectural", 2>>, <<"governing_doc", 1>>, <<"governing_doc", 2>> >>

\* the part of a pattern before \s*(?:Section\s*|SECT\s*)?([0-9\.]+)? at i:
\* the position after it, 0 when it does not match
HoaHeadEnd(pat, s, i) ==
  IF pat = <<"ccr", 1>> THEN WordS(s, i, <<"C","C","&","R">>)
  ELSE IF pat = <<"ccr", 2>> THEN CcrLongEnd(s, i)
  ELSE IF pat = <<"ccr", 3>> THEN WordS(s, i, <<"C","o","v","e","n","a","n","t">>)
  ELSE IF pat = <<"bylaws", 1>>
  THEN (IF WordS(s, i, <<"B","y","l","a","w">>) # 0 THEN WordS(s, i, <<"B","y","l","a","w">>)
        ELSE WordS(s, i, <<"B","y","-","l","a","w">>))
  ELSE IF pat = <<"bylaws", 2>>
  THEN WordS(s, OptWordSp(s, <<"C","o","r","p","o","r","a","t","e">>, i), <<"B","y","l","a","w">>)
  ELSE IF pat = <<"declaration", 1>>
  THEN (IF LitAt(s, <<"D","e","c","l","a","r","a","t","i","o","n">>, i, TRUE) THEN i + Len(<<"D","e","c","l","a","r","a","t","i","o","n">>) ELSE 0)
  ELSE IF pat = <<"declaration", 2>>
  THEN (IF ~LitAt(s, <<"D","e","c","l","a","r","a","t","i","o","n">>, i, TRUE)
           \/ Spaces1(s, i + Len(<<"D","e","c","l","a","r","a","t","i","o","n">>)) = 0
        THEN 0
        ELSE WordThenOneOf(s, Spaces1(s, i + Len(<<"D","e","c","l","a","r","a","t","i","o","n">>)), <<"o","f">>,
                           {<<"C","o","v","e","n","a","n","t">>, <<"R","e","s","t","r","i","c","t","i","o","n">>}))
  ELSE IF pat = <<"architectural", 1>>
  THEN WordThenOneOf(s, i, <<"A","r","c","h","i","t","e","c","t","u","r","a","l">>, GuidelineWords \cup {<<"R","u","l","e">>})
  ELSE IF pat = <<"architectural", 2>>
  THEN WordThenOneOf(s, i, <<"D","e","s","i","g","n">>, GuidelineWords)
  ELSE IF pat = <<"governing_doc", 1>>
  THEN WordThenOneOf(s, i, <<"G","o","v","e","r","n","i","n","g">>, {<<"D","o","c","u","m","e","n","t">>})
  ELSE WordThenOneOf(s, i, <<"C","o","m","m","u","n","i","t","y">>, {<<"D","o","c","u","m","e","n","t">>})

IsSectionChar(c) == IsDigit(c) \/ c = "."
SkipSection(s, i) ==
  CHOOSE j \in i..(Len(s) + 1) :
    /\ \A k \in i..(j - 1) : IsSectionChar(s[k])
    /\ (j = Len(s) + 1 \/ ~IsSectionChar(s[j]))

\* \s*(?:Section\s*|SECT\s*)? from e: where group 1 would start
HoaGroupStart(s, e) ==
  The({IF LitAt(s, <<"S","e","c","t","i","o","n">>, a, TRUE) THEN SkipSpaces(s, a + Len(<<"S","e","c","t","i","o","n">>))
       ELSE IF a <= Len(s) /\ s[a] = cSect THEN SkipSpaces(s, a + 1)
       ELSE a :
         a \in {SkipSpaces(s, e)}})

\* <<start of group 1, end of the match>> of a pattern at i (the group is
\* empty, and so None, when both are equal), zeros when it does not match
HoaMatchAt(pat, s, i) ==
  IF HoaHeadEnd(pat, s, i) = 0 THEN <<0, 0>>
  ELSE The({<<g, SkipSection(s, g)>> :
              g \in {HoaGroupStart(s, HoaHeadEnd(pat, s, i))}})

\* re.finditer(pattern, text, re.IGNORECASE) from pos: for each match
\* group(1), <<>> standing for None
RECURSIVE HoaIter(_, _, _)
HoaIter(pat, s, pos) ==
  The({IF hits = {} THEN <<>>
       ELSE The({<<Slice(s, m[1], m[2] - 1)>> \o HoaIter(pat, s, m[2]) :
                   m \in {HoaMatchAt(pat, s, Leftmost(hits))}}) :
         hits \in {{i \in pos..Len(s) : HoaMatchAt(pat, s, i)[2] # 0}}})

\* doc_type.upper()
HoaUpper ==
  [ccr |-> <<"C","C","R">>, bylaws |-> <<"B","Y","L","A","W","S">>, declaration |-> <<"D","E","C","L","A","R","A","T","I","O","N">>,
   architectural |-> <<"A","R","C","H","I","T","E","C","T","U","R","A","L">>, governing_doc |-> <<"G","O","V","E","R","N","I","N","G","_","D","O","C">>]

\* the violation entry of a match
HoaViolation(docType, group) ==
  IF Len(group) = 0 THEN HoaUpper[docType]
  ELSE HoaUpper[docType] \o <<" ","S","e","c","t","i","o","n"," ">> \o group

\* The body of the loop for one match: the entry goes to the list of its
\* document type when it is not there yet, and then to
\* governing_doc_violations as well; for the type governing_doc both are
\* the same list.
AddViolation(case, docType, violation) ==
  IF InSeq(violation, case[docType]) THEN case
  ELSE The({[c1 EXCEPT !.governing_doc = Append(@, violation)] :
              c1 \in {[case EXCEPT ![docType] = Append(@, violation)]}})

RECURSIVE AddViolations(_, _, _)
AddViolations(case, docType, groups) ==
  IF Len(groups) = 0 THEN case
  ELSE AddViolations(AddViolation(case, docType, HoaViolation(docType, groups[1])),
                     docType, Tail(groups))

RECURSIVE HoaFrom(_, _, _)
HoaFrom(case, text, n) ==
  IF n > Len(HoaPatterns) THEN case
  ELSE HoaFrom(AddViolations(case, HoaPatterns[n][1],
                             HoaIter(HoaPatterns[n], text, 1)),
               text, n + 1)

\* the five lists of a new case
NoViolations == [t \in {HoaDocTypes[n] : n \in 1..Len(HoaDocTypes)} |-> <<>>]

\* _extract_hoa_violations(case, text) on a new case
ExtractHoaViolations(text) == HoaFrom(NoViolations, text, 1)


MaxHoaPassages == 2
HoaPassages ==
  { <<"v","i","o","l","a","t","e","d"," ","C","C","&","R","s"," ","S","e","c","t","i","o","n"," ","4",".","2"," ">>, <<"t","h","e"," ","c","c","&","r"," ","4",".","2"," ","a","n","d"," ","C","C","&","R"," ">>,
    <<"C","o","v","e","n","a","n","t","s",","," ","C","o","n","d","i","t","i","o","n","s"," ","a","n","d"," ","R","e","s","t","r","i","c","t","i","o","n","s"," ","SECT"," ","3","."," ">>,
    <<"B","y","-","l","a","w","s"," ","S","e","c","t","i","o","n"," ","3"," ","a","n","d"," ","C","o","r","p","o","r","a","t","e"," ","B","y","l","a","w","s"," ">>,
    <<"t","h","e"," ","D","e","c","l","a","r","a","t","i","o","n"," ","o","f"," ","C","o","v","e","n","a","n","t","s"," ">>,
    <<"A","r","c","h","i","t","e","c","t","u","r","a","l"," ","G","u","i","d","e","l","i","n","e","s"," ","S","e","c","t","i","o","n"," ","7"," ">>,
    <<"G","o","v","e","r","n","i","n","g"," ","D","o","c","u","m","e","n","t","s"," ">>, <<"C","o","m","m","u","n","i","t","y"," ","D","o","c","u","m","e","n","t","s"," ","S","e","c","t","i","o","n"," ","2",".","1"," ">>,
    <<"t","h","e"," ","h","e","a","r","i","n","g"," ","w","a","s"," ","h","e","l","d"," ">> }
HoaTexts ==
  {JoinPassages(ps) : ps \in UNION {[1..n -> HoaPassages] : n \in 0..MaxHoaPassages}}

InitHoa ==
  /\ NoStore
  /\ xin \in HoaTexts
  /\ xout = Pending

ExtractHoa ==
  /\ xout = Pending
  /\ xout' = ExtractHoaViolations(xin)
  /\ UNCHANGED <<coll, index, lastOp, result, xin, citation_cache>>

NextHoa == ExtractHoa

SpecHoa == InitHoa /\ [][NextHoa]_vars

\* no entry occurs at two places of a list
NoDuplicates(list) ==
  \A i \in 1..Len(list) : \A j \in 1..Len(list) : list[i] = list[j] => i = j

\* C22: after _extract_hoa_violations, none of the governing-document
\* violation lists (ccr_violations, bylaws_violations,
\* declaration_violations, architectural_violations,
\* governing_doc_violations) contains the same entry twice, whatever the
\* number and order of matches in the text.
C22_NoDuplicateViolations ==
  xout # Pending =>
    \A t \in {"ccr", "bylaws", "declaration", "architectural", "governing_doc"} :
      NoDuplicates(xout[t])


(***************************************************************************)
(* comprehensive_processor.py: the names of parties, attorneys and judges  *)
(***************************************************************************)
\* name.rstrip('.,;:')
RECURSIVE RStripPunct(_)
RStripPunct(s) ==
  IF Len(s) > 0 /\ s[Len(s)] \in {".", ",", ";", ":"}
  THEN RStripPunct(Slice(s, 1, Len(s) - 1)) ELSE s

\* str.title(): a letter is put in upper case when no letter stands before
\* it, in lower case otherwise
StrTitle(s) ==
  [i \in 1..Len(s) |->
     IF i > 1 /\ IsAlpha(s[i - 1]) THEN ToLowerC(s[i]) ELSE ToUpperC(s[i])]

\* _clean_name
CleanName(name) == StrTitle(RStripPunct(Strip(CollapseWs(name))))

\* The loop 'for pattern in patterns: match = re.search(...); if match:
\* name = clean(group(1)); if valid(name): store; break'.  found[n] is
\* group(1) of the search with pattern n, None when it finds nothing; the
\* result is the name stored, None when none is.  role names the validator.
ValidFor(role, name) ==
  IF role = "party" THEN IsValidPartyName(name)
  ELSE IF role = "attorney" THEN IsValidAttorneyName(name)
  ELSE IsValidJudgeName(name)

FirstValid(role, found) ==
  The({IF hits = {} THEN None ELSE CleanName(found[Leftmost(hits)]) :
         hits \in {{n \in 1..Len(found) :
                      found[n] # None /\ ValidFor(role, CleanName(found[n]))}}})

sHomeowners == <<" ","H","o","m","e","o","w","n","e","r","s"," ","A","s","s","o","c","i","a","t","i","o","n">>
sManagement == <<"m","a","n","a","g","e","m","e","n","t">>
HoaMinLen == 3

\* the hoa loops: per pattern the first match whose cleaned group(1) is
\* longer than 3 sets hoa_name and, when there is no respondent_name yet,
\* respondent_name; matches[n] are the group(1) values of finditer with
\* pattern n
RECURSIVE HoaNames(_, _, _)
HoaNames(case, matches, n) ==
  IF n > Len(matches) THEN case
  ELSE The({IF long = {} THEN HoaNames(case, matches, n + 1)
            ELSE The({HoaNames([case EXCEPT
                                  !.hoa_name = hoa,
                                  !.respondent_type = "hoa",
                                  !.respondent_name =
                                     IF @ = None THEN hoa \o sHomeowners ELSE @],
                               matches, n + 1) :
                        hoa \in {CleanName(matches[n][Leftmost(long)])}}) :
              long \in {{m \in 1..Len(matches[n]) :
                           Len(CleanName(matches[n][m])) > HoaMinLen}}})

\* the management loop: the first pattern whose match, cleaned, is longer
\* than 3
ManagementCompany(case, found) ==
  The({IF hits = {} THEN case
       ELSE [case EXCEPT
               !.management_company = CleanName(found[Leftmost(hits)]),
               !.respondent_type =
                  IF case.respondent_name # None
                     /\ Contains(StrLower(case.respondent_name), sManagement)
                  THEN "management_company" ELSE @] :
         hits \in {{n \in 1..Len(found) :
                      found[n] # None /\ Len(CleanName(found[n])) > HoaMinLen}}})

\* _extract_parties on a new case; m holds what the searches find
ExtractParties(m) ==
  ManagementCompany(
    HoaNames([petitioner_name |-> FirstValid("party", m.petitioner),
              respondent_name |-> FirstValid("party", m.respondent),
              hoa_name |-> None, respondent_type |-> "unknown",
              management_company |-> None],
             m.hoa, 1),
    m.management)

\* esq_attorneys: the valid names among the matches of the esq pattern
RECURSIVE EsqAttorneys(_)
EsqAttorneys(found) ==
  IF Len(found) = 0 THEN <<>>
  ELSE (IF IsValidAttorneyName(CleanName(found[1]))
        THEN <<CleanName(found[1])>> ELSE <<>>) \o EsqAttorneys(Tail(found))

\* the roles given to the esq attorneys when no role was found by pattern
InferRoles(case, esq) ==
  IF Len(esq) = 0 \/ case.petitioner_attorney # None
     \/ case.respondent_attorney # None
  THEN case
  ELSE IF Len(esq) = 1 THEN [case EXCEPT !.respondent_attorney = esq[1]]
  ELSE IF Len(esq) = 2
  THEN [case EXCEPT !.petitioner_attorney = esq[1],
                    !.respondent_attorney = esq[2]]
  ELSE case

AssistantAttorneyGeneral(case, name) ==
  IF name = None THEN case
  ELSE [case EXCEPT !.assistant_attorney_general = name,
                    !.petitioner_attorney = IF @ = None THEN name ELSE @]

ProSe(case, proSe) ==
  [case EXCEPT !.pro_se_parties =
     IF ~proSe THEN <<>>
     ELSE (IF case.petitioner_attorney = None THEN <<"petitioner">> ELSE <<>>)
          \o (IF case.respondent_attorney = None THEN <<"respondent">> ELSE <<>>)]

\* _extract_attorneys on a new case
ExtractAttorneys(m) ==
  ProSe(AssistantAttorneyGeneral(
          InferRoles([petitioner_attorney |-> FirstValid("attorney", m.petitioner_attorney),
                      respondent_attorney |-> FirstValid("attorney", m.respondent_attorney),
                      assistant_attorney_general |-> None,
                      pro_se_parties |-> <<>>],
                     EsqAttorneys(m.esq_titles)),
          FirstValid("attorney", m.aag)),
        m.pro_se)

\* judge_patterns['judge'], as the strings the code tests with
\* 'hearing officer' in pattern.lower()
JudgePatternTexts ==
  << <<"(","?",":","J","u","d","g","e","|","H","e","a","r","i","n","g","\\",
     "s","+","O","f","f","i","c","e","r",")",":","\\","s","*","(","[","A",
     "-","Z","]","[","a","-","z","]","+","(","?",":","\\","s","+","[","A",
     "-","Z","]","\\",".","?","\\","s","*",")","?","(","?",":","\\","s",
     "+","[","A","-","Z","]","[","a","-","z","]","+",")","+",")">>,
     <<"(","[","A","-","Z","]","[","a","-","z","]","+","(","?",":","\\","s",
     "+","[","A","-","Z","]","\\",".","?","\\","s","*",")","?","(","?",":",
     "\\","s","+","[","A","-","Z","]","[","a","-","z","]","+",")","+",")",
     ",","?","\\","s","+","(","?",":","J","u","d","g","e","|","H","e","a",
     "r","i","n","g","\\","s","+","O","f","f","i","c","e","r",")">> >>
sHearingOfficer == <<"h","e","a","r","i","n","g"," ","o","f","f","i","c","e","r">>

\* _extract_judges on a new case
ExtractJudges(m) ==
  The({IF alj # None
       THEN [administrative_law_judge |-> alj, judge_name |-> alj,
             hearing_officer |-> None]
       ELSE The({[administrative_law_judge |-> None,
                  judge_name |-> IF hits = {} THEN None
                                 ELSE CleanName(m.judge[Leftmost(hits)]),
                  hearing_officer |->
                     IF hits # {} /\ Contains(StrLower(JudgePatternTexts[Leftmost(hits)]),
                                              sHearingOfficer)
                     THEN CleanName(m.judge[Leftmost(hits)]) ELSE None] :
                   hits \in {{n \in 1..Len(m.judge) :
                                m.judge[n] # None
                                /\ IsValidJudgeName(CleanName(m.judge[n]))}}}) :
         alj \in {FirstValid("judge", m.alj)}})


(***************************************************************************)
(* The names of one document.  The searches of the patterns are the        *)
(* environment: each gives group(1) of its match or None.                  *)
(***************************************************************************)
nJaneDoe == <<"j","a","n","e"," "," ","d","o","e",",">>
nCaseRidge == <<"C","a","s","e"," ","R","i","d","g","e">>
nSunset == <<"S","u","n","s","e","t"," ","V","i","s","t","a">>
nBob == <<"B","o","b">>
nRoyRoe == <<"R","o","y"," ","R","o","e">>
nAmyPoe == <<"a","m","y"," ","p","o","e",".">>
nJudgeAnn == <<"T","h","e"," ","H","o","n","o","r","a","b","l","e"," ","A","n","n"," ","L","e","e">>
nAnnLee == <<"A","n","n"," ","L","e","e">>
nRespondentCo == <<"A","c","m","e"," ","M","a","n","a","g","e","m","e","n","t">>

PartyFinds ==
  {<<None, None, None>>, <<nBob, None, nJaneDoe>>, <<None, nRespondentCo, None>>}
HoaFinds ==
  {<<<<>>, <<>>, <<>>>>, <<<<nBob, nCaseRidge>>, <<>>, <<nSunset>>>>,
   <<<<>>, <<nSunset>>, <<>>>>}
ManagementFinds == {<<None, None>>, <<nBob, nRespondentCo>>}
AttorneyFinds == {<<None, None>>, <<nBob, nRoyRoe>>}
EsqFinds == {<<>>, <<nAmyPoe>>, <<nAmyPoe, nBob, nRoyRoe>>}
AlJFinds == {<<None, None, None>>, <<nJudgeAnn, None, nAnnLee>>}
JudgeFinds == {<<None, None>>, <<None, nAnnLee>>}

NameFinds ==
  [petitioner : {<<None, None, None>>, <<nBob, None, nJaneDoe>>},
   respondent : PartyFinds, hoa : HoaFinds, management : ManagementFinds,
   petitioner_attorney : {<<None, None>>},
   respondent_attorney : AttorneyFinds,
   esq_titles : EsqFinds, aag : AttorneyFinds, pro_se : BOOLEAN,
   alj : AlJFinds, judge : JudgeFinds]

InitNames == NoStore /\ xin \in NameFinds /\ xout = Pending

\* extract_comprehensive_metadata: the three extractions of names on the case
\* of one document
ExtractNames ==
  /\ xout = Pending
  /\ xout' = [parties |-> ExtractParties(xin),
              attorneys |-> ExtractAttorneys(xin),
              judges |-> ExtractJudges(xin)]
  /\ UNCHANGED <<coll, index, lastOp, result, xin, citation_cache>>

NextNames == ExtractNames
SpecNames == InitNames /\ [][NextNames]_vars

Accepted(role, name) == name = None \/ ValidFor(role, name)

\* C24: every name stored in petitioner_name, respondent_name,
\* petitioner_attorney, respondent_attorney, assistant_attorney_general,
\* judge_name, administrative_law_judge and hearing_officer was accepted by
\* the validator of its role
C24_StoredNamesValidated ==
  xout # Pending =>
    /\ Accepted("party", xout.parties.petitioner_name)
    /\ Accepted("party", xout.parties.respondent_name)
    /\ Accepted("attorney", xout.attorneys.petitioner_attorney)
    /\ Accepted("attorney", xout.attorneys.respondent_attorney)
    /\ Accepted("attorney", xout.attorneys.assistant_attorney_general)
    /\ Accepted("judge", xout.judges.judge_name)
    /\ Accepted("judge", xout.judges.administrative_law_judge)
    /\ Accepted("judge", xout.judges.hearing_officer)


(***************************************************************************)
(* Further claims on the resolver                                          *)
(***************************************************************************)
\* the record has the string in one of its three citation lists
ListsCitation(rec, normalized) ==
  \E list \in {rec.statutes_cited, rec.cases_cited, rec.regulations_cited} :
    \E n \in 1..Len(list) : list[n] = normalized

\* the documents of project p, stored with their chunk, that list the string
ListedIn(p, normalized) ==
  {n \in 1..Len(index[p]) :
     /\ ListsCitation(index[p][n], normalized)
     /\ Len(ChunksWithDigest(coll[p], index[p][n].sha256)) > 0}

\* the candidate sources that exist, in the order given
RECURSIVE Existing(_)
Existing(projects) ==
  IF Len(projects) = 0 THEN <<>>
  ELSE (IF projects[1] \in Projects THEN <<projects[1]>> ELSE <<>>)
       \o Existing(Tail(projects))

\* C25: the exact-match step of resolve_citation finds a stored document
\* whenever the normalized citation appears in any one of the citation lists
\* (statutes_cited, cases_cited, regulations_cited) of a document of the
\* candidate source it looks into: the first existing source that holds such
\* a document answers by exact match
C25_ExactMatchAnyList ==
  [][SearchStep =>
       \A p \in {Existing(lastOp'.projects)[1]} :
         ListedIn(p, Normalized[lastOp'.citation]) # {}
           => lastOp'.via = "exact" /\ lastOp'.searched = <<p>>]_vars


\* the record lists the string in each of its three citation lists
ListsInAll(rec, normalized) ==
  \A list \in {rec.statutes_cited, rec.cases_cited, rec.regulations_cited} :
    \E n \in 1..Len(list) : list[n] = normalized

\* the result of the step belongs to one of the projects passed, and is
\* not-found only if none of them holds a document, with its chunk, that
\* lists the citation in all its lists
FromProjectsPassed ==
  /\ result'[1] # NoDocument
       => \E p \in Projects :
            /\ \E n \in 1..Len(lastOp'.projects) : lastOp'.projects[n] = p
            /\ \E n \in 1..Len(coll[p]) : coll[p][n] = result'[1]
  /\ result'[1] = NoDocument
       => \A p \in Projects :
            (\E n \in 1..Len(lastOp'.projects) : lastOp'.projects[n] = p)
              => \A n \in 1..Len(index[p]) :
                   ~(/\ ListsInAll(index[p][n], Normalized[lastOp'.citation])
                     /\ Len(ChunksWithDigest(coll[p], index[p][n].sha256)) > 0)

TwoPassages(a, b) == a \o <<"\n">> \o b

InitMixed ==
  /\ NoStore
  /\ xin \in ClassTexts \X ClassTexts
  /\ xout = Pending

ClassifyMixed ==
  /\ xout = Pending
  /\ xout' = [doc |-> ClassifyDocument(TwoPassages(xin[1], xin[2]))]
  /\ UNCHANGED <<coll, index, lastOp, result, xin, citation_cache>>

NextMixed == ClassifyMixed

SpecMixed == InitMixed /\ [][NextMixed]_vars

\* C27: a document in which a final-order indicator ('FINAL ORDER', 'ORDER
\* AND DECISION', 'DECISION AND ORDER') occurs is given document type
\* final_order, authority weight 3.0 and the primary-authority flag, also
\* when indicators of other types occur in it
C27_FinalOrderWins ==
  (/\ xout # Pending
   /\ ContainsAny(StrUpper(TwoPassages(xin[1], xin[2])),
                  DocTypeIndicators("final_order")))
    => /\ xout.doc.document_type = "final_order"
       /\ xout.doc.authority_weight = 30
       /\ xout.doc.is_primary_authority


(***************************************************************************)
(* Ingestion with legal processing enabled when the vector store raises    *)
(* while the chunks are added                                              *)
(***************************************************************************)
\* the chunks of one db.add_documents call of ingest.py (batch_size there is
\* 100; the model's documents have a few chunks)
BatchSize == 1

\* the calls of db.add_documents a run makes for n chunks
Batches(n) == (n + BatchSize - 1) \div BatchSize

\* ingest_document_comprehensive with the legacy stage enabled; addRaises:
\* collection.add raises.  The record is in the index by then (line 147), the
\* except clause of the function logs and returns False
IngestDocumentAdd(f, p, comp, fault, processed, addRaises) ==
  IF ~addRaises \/ AlreadyProcessed(coll[p], f.sha256) \/ Len(f.texts) = 0
  THEN IngestDocument(f, p, comp, TRUE, fault, processed)
  ELSE /\ index' = [index EXCEPT ![p] =
                      AddDocument(@, LegalMetadata(f, processed))]
       /\ lastOp' = IngestOp("ingest_document", p, <<f>>, "failed")
       /\ result' = <<>>
       /\ UNCHANGED <<coll, xin, xout, citation_cache>>

\* ingest of ingest.py with legal processing enabled; failAt: the call of
\* db.add_documents that raises, 0 when none does.  The batches before it
\* are in the store, the exception leaves ingest before save_index
IngestRunAdd(fs, p, processed, failAt) ==
  IF failAt = 0 THEN IngestRun(fs, p, TRUE, processed)
  ELSE \E chunks \in {WithIds(SortByPriority(RunDocs(fs, ExistingDigests(coll[p]),
                                                     TRUE, processed)),
                              Len(coll[p]))} :
         /\ failAt <= Batches(Len(chunks))
         /\ StoredChunks(coll) + (failAt - 1) * BatchSize <= MaxStoreChunks
         /\ coll' = [coll EXCEPT ![p] =
                       @ \o SubSeq(chunks, 1, (failAt - 1) * BatchSize)]
         /\ lastOp' = IngestOp("ingest_run", p, fs, "raised")
         /\ result' = <<>>
         /\ UNCHANGED <<index, xin, xout, citation_cache>>

MaxBatches == 3

IngestOneLegal ==
  /\ Idle
  /\ \E f \in Files, p \in Projects, comp \in BOOLEAN, fault \in IngestFaults,
        addRaises \in BOOLEAN :
       \E processed \in {Processed[f]} :
         IngestDocumentAdd(f, p, comp, fault, processed, addRaises)

IngestDirectoryLegal ==
  /\ Idle
  /\ \E fs \in RunFiles, p \in Projects, failAt \in 0..MaxBatches :
       \E processed \in {Processed} : IngestRunAdd(fs, p, processed, failAt)

NextLegal == IngestOneLegal \/ IngestDirectoryLegal \/ Return

SpecLegal == Init /\ [][NextLegal]_vars

\* the chunks of collection p with that digest
StoredWith(p, digest) == {n \in 1..Len(coll[p]) : coll[p][n].sha256 = digest}

\* C28: with legal processing enabled the metadata index and the vector
\* store are consistent in every reachable state, also after a failure while
\* chunks are being added: the index holds a record for a content hash if and
\* only if the store holds chunks of that document, and a hash that is in
\* the store has all the chunks of its document stored (one per text at
\* least)
C28_IndexStoreConsistent ==
  \A p \in Projects : \A f \in Files :
    /\ (\E r \in index[p] : r.sha256 = f.sha256) <=> StoredWith(p, f.sha256) # {}
    /\ StoredWith(p, f.sha256) # {}
         => Cardinality(StoredWith(p, f.sha256)) >= Len(f.texts)


(***************************************************************************)
(* Ingestion of files that have the same stem                              *)
(***************************************************************************)
\* the rehearing order once more, as the scan that was filed
fileRhgPdf ==
  [name |-> tokA \o sRHG \o <<".","p","d","f">>, sha256 |-> "h5",
   texts |-> << <<"s","c","a","n"," ","o","f"," ","t","h","e"," ","o","r","d","e","r">> >>]
StemFiles == {fileA, fileRhg, fileRhgPdf}
StemProcessed ==
  [f \in StemFiles |-> The({ProcessedAs(f, fullText) : fullText \in {FullText(f)}})]

\* what collection.add does with an id the collection has already: the
\* releases of the vector store differ, one raises, the other passes over it
DuplicateIdOutcomes == {"raise", "ignore"}

\* the ids of the chunks of a collection
IdsOf(c) == {c[n].id : n \in 1..Len(c)}

\* collection.add(documents, metadatas, ids) on collection c, as
\* [raised, c]
CollectionAdd(c, chunks, onDuplicate) ==
  IF \A n \in 1..Len(chunks) : chunks[n].id \notin IdsOf(c)
  THEN [raised |-> FALSE, c |-> c \o chunks]
  ELSE IF onDuplicate = "raise" THEN [raised |-> TRUE, c |-> c]
  ELSE [raised |-> FALSE,
        c |-> c \o SelectSeq(chunks, LAMBDA chunk : chunk.id \notin IdsOf(c))]

\* ingest_document_comprehensive with the ids it gives the chunks
IngestDocumentIds(f, p, comp, legal, fault, processed, onDuplicate) ==
  IF AlreadyProcessed(coll[p], f.sha256) \/ Len(f.texts) = 0
  THEN IngestDocument(f, p, comp, legal, fault, processed)
  ELSE \E extracted \in {IF comp THEN processed.comprehensive[fault]
                          ELSE [raised |-> TRUE, at |-> "disabled"]} :
         \E chunks \in {DocumentChunks(f, processed, extracted, legal)} :
           \E added \in {CollectionAdd(coll[p], chunks, onDuplicate)} :
             /\ StoredChunks(coll) + Len(chunks) <= MaxStoreChunks
             /\ coll' = [coll EXCEPT ![p] = added.c]
             /\ index' = [index EXCEPT ![p] =
                            IF legal
                            THEN AddDocument(@, LegalMetadata(f, processed))
                            ELSE @]
             /\ lastOp' = [op |-> "ingest_document", project |-> p,
                           files |-> <<f.name>>, digests |-> {f.sha256},
                           outcome |-> IF added.raised THEN "failed" ELSE "added",
                           ids |-> IdsOf(chunks)]
             /\ result' = <<>>
             /\ UNCHANGED <<xin, xout, citation_cache>>

IngestStemFile ==
  /\ Idle
  /\ \E f \in StemFiles, p \in Projects, comp \in BOOLEAN, legal \in BOOLEAN,
        fault \in IngestFaults, onDuplicate \in DuplicateIdOutcomes :
       \E processed \in {StemProcessed[f]} :
         IngestDocumentIds(f, p, comp, legal, fault, processed, onDuplicate)

NextStem == IngestStemFile \/ Return

SpecStem == Init /\ [][NextStem]_vars

\* C29: the chunk ids ingest_document_comprehensive assigns are unique over
\* the collection: no id given to a chunk of the document just ingested is
\* the id of a chunk of a document with another content hash
C29_ChunkIdsUnique ==
  (lastOp.op = "ingest_document" /\ lastOp.outcome \in {"added", "failed"})
    => \A n \in 1..Len(coll[lastOp.project]) :
         coll[lastOp.project][n].id \in lastOp.ids
           => coll[lastOp.project][n].sha256 \in lastOp.digests


(***************************************************************************)
(* One resolver shared by concurrent callers of resolve_citation           *)
(***************************************************************************)
Callers == {"t1", "t2"}

\* the citations the callers ask for: one normalized form
SharedQueries == {c \in ResolverQueries : Normalized[c] = Normalized[citeX]}

\* lastOp[t] is where caller t stands in resolve_citation: "idle" before the
\* call, "check" before line 48, "search" before the loop of line 52,
\* "write" before the assignment to the cache, "done" after the return;
\* xout counts the searches that were run
InitShared ==
  /\ coll = [p \in Projects |-> <<>>]
  /\ index = [p \in Projects |-> <<>>]
  /\ lastOp = [t \in Callers |->
                 [pc |-> "idle", citation |-> <<>>, projects |-> <<>>,
                  doc |-> NoDocument]]
  /\ result = [t \in Callers |-> <<>>]
  /\ xin = <<>>
  /\ xout = [searches |-> 0]
  /\ citation_cache = <<>>

\* the call: normalized = self.normalize_citation(citation)
CallResolve(t) ==
  /\ lastOp[t].pc = "idle"
  /\ \E citation \in SharedQueries, projects \in ProjectLists :
       lastOp' = [lastOp EXCEPT ![t] = [pc |-> "check", citation |-> citation,
                                        projects |-> projects, doc |-> NoDocument]]
  /\ UNCHANGED <<coll, index, result, xin, xout, citation_cache>>

\* 'if normalized in self.citation_cache: return self.citation_cache[normalized]'
CheckCache(t) ==
  /\ lastOp[t].pc = "check"
  /\ IF Cached(citation_cache, Normalized[lastOp[t].citation])
     THEN /\ lastOp' = [lastOp EXCEPT ![t].pc = "done"]
          /\ result' = [result EXCEPT ![t] =
                          <<citation_cache[Normalized[lastOp[t].citation]]>>]
     ELSE /\ lastOp' = [lastOp EXCEPT ![t].pc = "search"]
          /\ UNCHANGED result
  /\ UNCHANGED <<coll, index, xin, xout, citation_cache>>

\* the loop over the projects
SearchCitation(t) ==
  /\ lastOp[t].pc = "search"
  /\ \E tops \in SimilarityAnswers(coll, 1) :
       lastOp' = [lastOp EXCEPT
                    ![t].pc = "write",
                    ![t].doc = SearchProjects(Normalized[lastOp[t].citation],
                                              lastOp[t].projects, index, coll,
                                              tops).doc]
  /\ xout' = [searches |-> xout.searches + 1]
  /\ UNCHANGED <<coll, index, result, xin, citation_cache>>

\* 'self.citation_cache[normalized] = doc' and the return
WriteCache(t) ==
  /\ lastOp[t].pc = "write"
  /\ citation_cache' = CacheStore(citation_cache, Normalized[lastOp[t].citation],
                                  lastOp[t].doc)
  /\ result' = [result EXCEPT ![t] = <<lastOp[t].doc>>]
  /\ lastOp' = [lastOp EXCEPT ![t].pc = "done"]
  /\ UNCHANGED <<coll, index, xin, xout>>

\* StoreDocument: a document is ingested while the callers run
NextShared ==
  \/ \E t \in Callers : CallResolve(t)
  \/ \E t \in Callers : CheckCache(t)
  \/ \E t \in Callers : SearchCitation(t)
  \/ \E t \in Callers : WriteCache(t)
  \/ StoreDocument

SpecShared == InitShared /\ [][NextShared]_vars

\* C30: the cache of a resolver shared by concurrent callers is guarded: for
\* calls with one normalized citation the check of the cache and the write
\* act as one atomic step, so the search runs at most once and every caller
\* that has returned got the value the cache holds
C30_CacheGuarded ==
  /\ xout.searches <= 1
  /\ \A t \in Callers :
       lastOp[t].pc = "done"
         => result[t] = <<citation_cache[Normalized[lastOp[t].citation]]>>

====
